---- MODULE Spec2Model ----
(***************************************************************************)
(* Model of the schema-driven variable editor (src/unnamed/part_000,       *)
(* lines 1-731): descriptor defaults, sanitization against the schema,     *)
(* start-up reconciliation, load example, reset, control rendering and     *)
(* the edit handlers, with sessionStorage and the JSON preview.            *)
(***************************************************************************)
EXTENDS Integers, Sequences, FiniteSets, TLC

(***************************************************************************)
(* JavaScript values.  A value is a tuple whose first element is its kind. *)
(* Strings are TLA+ strings.  An object is the sequence of its own         *)
(* properties <<key, value>> in property order (no key of the model is an  *)
(* integer-like key, so property order is insertion order).  A hole of an  *)
(* array reads as undefined and is represented by Undefined.               *)
(***************************************************************************)
Undefined == <<"undefined">>
Null == <<"null">>
Bool(b) == <<"boolean", b>>
Num(n) == <<"number", n>>
Str(s) == <<"string", s>>
Arr(es) == <<"array", es>>
Obj(ps) == <<"object", ps>>

TypeOf(v) == v[1]
IsArray(v) == TypeOf(v) = "array"
IsObject(v) == TypeOf(v) = "object"

\* ToBoolean
Truthy(v) ==
  CASE TypeOf(v) = "undefined" -> FALSE
    [] TypeOf(v) = "null" -> FALSE
    [] TypeOf(v) = "boolean" -> v[2]
    [] TypeOf(v) = "number" -> v[2] # 0
    [] TypeOf(v) = "string" -> v[2] # ""
    [] OTHER -> TRUE

DigitStr(d) ==
  CASE d = 0 -> "0" [] d = 1 -> "1" [] d = 2 -> "2" [] d = 3 -> "3" [] d = 4 -> "4"
    [] d = 5 -> "5" [] d = 6 -> "6" [] d = 7 -> "7" [] d = 8 -> "8" [] d = 9 -> "9"

RECURSIVE NatStr(_)
NatStr(n) == IF n < 10 THEN DigitStr(n) ELSE NatStr(n \div 10) \o DigitStr(n % 10)

\* Number::toString for the integers of the model
NumStr(n) == IF n < 0 THEN "-" \o NatStr(0 - n) ELSE NatStr(n)

\* String(v)
RECURSIVE JSString(_)
JSString(v) ==
  CASE TypeOf(v) = "undefined" -> "undefined"
    [] TypeOf(v) = "null" -> "null"
    [] TypeOf(v) = "boolean" -> (IF v[2] THEN "true" ELSE "false")
    [] TypeOf(v) = "number" -> NumStr(v[2])
    [] TypeOf(v) = "string" -> v[2]
    [] TypeOf(v) = "array" ->
         LET el(e) == IF e = Undefined \/ e = Null THEN "" ELSE JSString(e)
             join[i \in 0..Len(v[2])] ==
               IF i = 0 THEN ""
               ELSE IF i = 1 THEN el(v[2][1])
               ELSE join[i - 1] \o "," \o el(v[2][i])
         IN join[Len(v[2])]
    [] OTHER -> "[object Object]"

\* Own property keys of a value, as a set
OwnKeys(v) ==
  CASE TypeOf(v) = "object" -> {v[2][i][1] : i \in 1..Len(v[2])}
    [] TypeOf(v) = "array" -> {"length"}
    [] TypeOf(v) = "string" -> {"length"}
    [] OTHER -> {}

\* Object.prototype.hasOwnProperty.call(v, k)
HasOwn(v, k) == k \in OwnKeys(v)

\* v[k] for a key of the model
Get(v, k) ==
  CASE TypeOf(v) = "object" ->
         IF k \in OwnKeys(v)
         THEN LET i == CHOOSE j \in 1..Len(v[2]) : v[2][j][1] = k IN v[2][i][2]
         ELSE Undefined
    [] TypeOf(v) = "array" -> IF k = "length" THEN Num(Len(v[2])) ELSE Undefined
    [] TypeOf(v) = "string" -> IF k = "length" THEN Num(Len(v[2])) ELSE Undefined
    [] OTHER -> Undefined

\* obj[k] = x on an object: replaces in place or appends
Put(v, k, x) ==
  IF k \in OwnKeys(v)
  THEN Obj([i \in 1..Len(v[2]) |-> IF v[2][i][1] = k THEN <<k, x>> ELSE v[2][i]])
  ELSE Obj(Append(v[2], <<k, x>>))

\* delete obj[k]
Delete(v, k) == Obj(SelectSeq(v[2], LAMBDA p : p[1] # k))

\* structuredClone: a deep copy; the copy has the same value and shares
\* no array with the original (sharing is tracked by `aliased`)
structuredClone(v) == v

(***************************************************************************)
(* Descriptors.  A descriptor is a record of the fields the code reads;    *)
(* an absent field is Undefined or "".   isNull marks a schema entry     *)
(* that is not an object (null).  numbered holds the choice_<N> keys as    *)
(* <<N, value>> in the order the keys appear in the descriptor.            *)
(***************************************************************************)
Desc0 ==
  [isNull |-> FALSE, type |-> "", default |-> Undefined, count |-> Undefined,
   readonly |-> FALSE, input |-> "", choices |-> Undefined, numbered |-> <<>>,
   label |-> "", help |-> ""]

NullDesc == [Desc0 EXCEPT !.isNull = TRUE]

IsSection(desc) == ~desc.isNull /\ desc.type = "section"

\* Stable insertion sort of <<idx, val>> pairs by ascending idx
\* (Array.prototype.sort with (a,b) => a.idx - b.idx)
RECURSIVE SortByIdx(_)
SortByIdx(ps) ==
  IF Len(ps) <= 1 THEN ps
  ELSE LET rest == SortByIdx(Tail(ps))
           h == Head(ps)
           before == SelectSeq(rest, LAMBDA q : q[1] < h[1])
           after == SelectSeq(rest, LAMBDA q : q[1] >= h[1])
       IN before \o <<h>> \o after

\* getChoices(desc) with the fault of lacking the sort of line 92: the
\* numbered choices stand in the order of the descriptor's keys
getChoicesUnsorted(desc) ==
  IF desc.isNull THEN <<>>
  ELSE IF IsArray(desc.choices)
       THEN [i \in 1..Len(desc.choices[2]) |-> JSString(desc.choices[2][i])]
  ELSE [i \in 1..Len(desc.numbered) |-> JSString(desc.numbered[i][2])]

\* getChoices(desc): the choices as a sequence of strings
getChoices(desc) ==
  IF desc.isNull THEN <<>>
  ELSE IF IsArray(desc.choices)
       THEN [i \in 1..Len(desc.choices[2]) |-> JSString(desc.choices[2][i])]
  ELSE LET choices == [i \in 1..Len(desc.numbered) |->
                         <<desc.numbered[i][1], JSString(desc.numbered[i][2])>>]
           sorted == SortByIdx(choices)
       IN [i \in 1..Len(sorted) |-> sorted[i][2]]

\* defaultFor(desc)
defaultFor(desc) ==
  IF desc.isNull THEN Null
  ELSE IF desc.default # Undefined THEN structuredClone(desc.default)
  ELSE IF desc.type = "boolean" THEN Bool(FALSE)
  ELSE IF desc.type = "number" THEN Num(0)
  ELSE IF desc.type = "number_array"
       THEN Arr([i \in 1..(IF Truthy(desc.count) THEN desc.count[2] ELSE 2) |-> Num(0)])
  ELSE IF desc.type = "string" THEN Str("")
  ELSE IF desc.type = "choice"
       THEN LET choices == getChoices(desc)
            IN IF Len(choices) > 0 THEN Str(choices[1]) ELSE Str("")
  ELSE Null

(***************************************************************************)
(* The schema (config) is [pageName, variables]; variables is the sequence *)
(* of <<key, descriptor>> in Object.keys order.                            *)
(***************************************************************************)
ConfigKeys(cfg) == {cfg.variables[i][1] : i \in 1..Len(cfg.variables)}

DescOf(cfg, k) ==
  LET i == CHOOSE j \in 1..Len(cfg.variables) : cfg.variables[j][1] = k
  IN cfg.variables[i][2]

\* The keys of the schema whose descriptor is not a section
NonSectionKeys(cfg) ==
  {cfg.variables[i][1] : i \in {j \in 1..Len(cfg.variables) : ~IsSection(cfg.variables[j][2])}}

\* buildSanitizedFromSource with the fault of testing the truthiness of
\* source[k] instead of its ownership
buildSanitizedTruthy(cfg, source) ==
  LET vars == cfg.variables
      ks == SelectSeq(vars, LAMBDA p : ~IsSection(p[2]))
  IN Obj([i \in 1..Len(ks) |->
            <<ks[i][1],
              IF Truthy(source) /\ Truthy(Get(source, ks[i][1]))
              THEN Get(source, ks[i][1])
              ELSE defaultFor(ks[i][2])>>])

\* buildSanitizedFromSource with the fault of not skipping sections
buildSanitizedWithSections(cfg, source) ==
  LET vars == cfg.variables
  IN Obj([i \in 1..Len(vars) |->
            <<vars[i][1],
              IF Truthy(source) /\ HasOwn(source, vars[i][1])
              THEN Get(source, vars[i][1])
              ELSE defaultFor(vars[i][2])>>])

\* buildSanitizedFromSource with the fault of a negated ownership test
buildSanitizedSwapped(cfg, source) ==
  LET vars == cfg.variables
      ks == SelectSeq(vars, LAMBDA p : ~IsSection(p[2]))
  IN Obj([i \in 1..Len(ks) |->
            <<ks[i][1],
              IF Truthy(source) /\ HasOwn(source, ks[i][1])
              THEN defaultFor(ks[i][2])
              ELSE Get(source, ks[i][1])>>])

\* buildSanitizedFromSource with the fault of filling the keys that source
\* lacks with null instead of the descriptor's default
buildSanitizedNullFill(cfg, source) ==
  LET vars == cfg.variables
      ks == SelectSeq(vars, LAMBDA p : ~IsSection(p[2]))
  IN Obj([i \in 1..Len(ks) |->
            <<ks[i][1],
              IF Truthy(source) /\ HasOwn(source, ks[i][1])
              THEN Get(source, ks[i][1])
              ELSE Null>>])

\* buildSanitizedFromSource(source), reading the global config
buildSanitizedFromSource(cfg, source) ==
  LET vars == cfg.variables
      ks == SelectSeq(vars, LAMBDA p : ~IsSection(p[2]))
  IN Obj([i \in 1..Len(ks) |->
            <<ks[i][1],
              IF Truthy(source) /\ HasOwn(source, ks[i][1])
              THEN Get(source, ks[i][1])
              ELSE defaultFor(ks[i][2])>>])

(***************************************************************************)
(* JSON.  Strings of the model hold no character that JSON escapes.        *)
(***************************************************************************)
RECURSIVE Spaces(_)
Spaces(n) == IF n <= 0 THEN "" ELSE " " \o Spaces(n - 1)

\* Concatenation of a sequence of strings with a separator
RECURSIVE JoinWith(_, _)
JoinWith(parts, sep) ==
  IF Len(parts) = 0 THEN ""
  ELSE IF Len(parts) = 1 THEN parts[1]
  ELSE parts[1] \o sep \o JoinWith(Tail(parts), sep)

\* JSON.stringify(v, null, gap) for a value nested at indentation ind;
\* gap = 0 is JSON.stringify(v).  An undefined property is left out and an
\* undefined array element is written null.
RECURSIVE Stringify(_, _, _)
Stringify(v, gap, ind) ==
  LET nl(n) == IF gap = 0 THEN "" ELSE "\n" \o Spaces(n)
      colon == IF gap = 0 THEN ":" ELSE ": "
  IN CASE TypeOf(v) = "undefined" -> "null"
       [] TypeOf(v) = "null" -> "null"
       [] TypeOf(v) = "boolean" -> (IF v[2] THEN "true" ELSE "false")
       [] TypeOf(v) = "number" -> NumStr(v[2])
       [] TypeOf(v) = "string" -> "\"" \o v[2] \o "\""
       [] TypeOf(v) = "array" ->
            IF Len(v[2]) = 0 THEN "[]"
            ELSE "[" \o nl(ind + gap)
                 \o JoinWith([i \in 1..Len(v[2]) |-> Stringify(v[2][i], gap, ind + gap)],
                             "," \o nl(ind + gap))
                 \o nl(ind) \o "]"
       [] TypeOf(v) = "object" ->
            LET ps == SelectSeq(v[2], LAMBDA p : p[2] # Undefined)
            IN IF Len(ps) = 0 THEN "{}"
               ELSE "{" \o nl(ind + gap)
                    \o JoinWith([i \in 1..Len(ps) |->
                                   "\"" \o ps[i][1] \o "\"" \o colon
                                   \o Stringify(ps[i][2], gap, ind + gap)],
                                "," \o nl(ind + gap))
                    \o nl(ind) \o "}"

\* The value JSON.parse(JSON.stringify(v)) yields, for v other than undefined
RECURSIVE JSONValue(_)
JSONValue(v) ==
  CASE TypeOf(v) = "undefined" -> Null
    [] TypeOf(v) = "array" -> Arr([i \in 1..Len(v[2]) |-> JSONValue(v[2][i])])
    [] TypeOf(v) = "object" ->
         LET ps == SelectSeq(v[2], LAMBDA p : p[2] # Undefined)
         IN Obj([i \in 1..Len(ps) |-> <<ps[i][1], JSONValue(ps[i][2])>>])
    [] OTHER -> v

\* The element of a singleton set.  The({F(x) : x \in {e}}) is F(e), with e
\* evaluated once and named x: the form of `const x = e; return F(x)`.
The(S) == CHOOSE x \in S : TRUE

CharAt(s, i) == SubSeq(s, i, i)
IsSpace(c) == c \in {" ", "\n", "\t", "\r"}
IsBracket(c) == c \in {"[", "]", "{", "}"}

\* Length of the longest run of white space of s that starts at position i
RECURSIVE SpaceRun(_, _)
SpaceRun(s, i) ==
  IF i <= Len(s) /\ IsSpace(CharAt(s, i)) THEN 1 + SpaceRun(s, i + 1) ELSE 0

\* The match of /\[\n(\s*)([^\[\]\{\}]*?)\n\s*\]/s that starts at position i:
\* [ok, from, to, end], group 2 being s[from..to] and the match ending at end.
\* Group 1 is greedy (longest first, backtracking), group 2 is lazy.
RegexMatchAt(s, i) ==
  LET n == Len(s)
      starts == i + 1 <= n /\ CharAt(s, i) = "[" /\ CharAt(s, i + 1) = "\n"
      run == IF starts THEN SpaceRun(s, i + 2) ELSE 0
      \* the first bracket or brace after the opening one: group 2 ends before it
      brackets == {j \in (i + 2)..n : IsBracket(CharAt(s, j))}
      stop == IF brackets = {} THEN n + 1
              ELSE CHOOSE j \in brackets : \A j2 \in brackets : j <= j2
      \* a "\n" at q < stop, then white space, then "]"
      closes(q) ==
        /\ CharAt(s, q) = "\n"
        /\ q + 1 + SpaceRun(s, q + 1) <= n
        /\ CharAt(s, q + 1 + SpaceRun(s, q + 1)) = "]"
      ends == {q \in (i + 2)..(stop - 1) : closes(q)}
      \* group 2 = s[p .. q-1] with p = i + 2 + g
      tails(p) == {q \in ends : q >= p}
      heads == {g \in 0..run : tails(i + 2 + g) # {}}
  IN IF ~starts \/ heads = {} THEN [ok |-> FALSE, from |-> 0, to |-> 0, end |-> 0]
     ELSE LET g == CHOOSE h \in heads : \A h2 \in heads : h2 <= h
              p == i + 2 + g
              q == CHOOSE t \in tails(p) : \A t2 \in tails(p) : t <= t2
          IN [ok |-> TRUE, from |-> p, to |-> q - 1,
              end |-> q + 1 + SpaceRun(s, q + 1)]

\* The least position j >= i of s at which c stands, or 0
NextChar(s, i, c) ==
  LET hits == {j \in i..Len(s) : CharAt(s, j) = c}
  IN IF hits = {} THEN 0 ELSE CHOOSE j \in hits : \A j2 \in hits : j <= j2

\* inner.replace(/\n\s*/g, ' ')
RECURSIVE JoinLines(_, _)
JoinLines(s, i) ==
  LET j == NextChar(s, i, "\n")
  IN IF j = 0 THEN SubSeq(s, i, Len(s))
     ELSE SubSeq(s, i, j - 1) \o " " \o JoinLines(s, j + 1 + SpaceRun(s, j + 1))

\* .replace(/,\s*/g, ', ')
RECURSIVE SpaceCommas(_, _)
SpaceCommas(s, i) ==
  LET j == NextChar(s, i, ",")
  IN IF j = 0 THEN SubSeq(s, i, Len(s))
     ELSE SubSeq(s, i, j - 1) \o ", " \o SpaceCommas(s, j + 1 + SpaceRun(s, j + 1))

\* String.prototype.trim
Trim(s) ==
  LET solid == {j \in 1..Len(s) : ~IsSpace(CharAt(s, j))}
  IN IF solid = {} THEN ""
     ELSE SubSeq(s, CHOOSE j \in solid : \A j2 \in solid : j <= j2,
                    CHOOSE j \in solid : \A j2 \in solid : j2 <= j)

\* The replacement callback of prettyPrintJSON
CollapseInner(inner) ==
  The({IF oneLine = "" THEN "[]" ELSE "[" \o oneLine \o "]" :
         oneLine \in {Trim(spaced) :
                        spaced \in {SpaceCommas(joined, 1) :
                                      joined \in {JoinLines(inner, 1)}}}})

\* The least position j >= i of s at which the regular expression matches, or 0
FirstMatch(s, i) ==
  The({IF hits = {} THEN 0 ELSE CHOOSE h \in hits : \A h2 \in hits : h <= h2 :
         hits \in {{j \in i..Len(s) : CharAt(s, j) = "[" /\ RegexMatchAt(s, j).ok}}})

\* s.replace(regex, callback) with the g flag, scanning from position i
RECURSIVE ReplaceAll(_, _)
ReplaceAll(s, i) ==
  The({IF j = 0 THEN SubSeq(s, i, Len(s))
       ELSE The({SubSeq(s, i, j - 1) \o CollapseInner(SubSeq(s, m.from, m.to))
                 \o ReplaceAll(s, m.end + 1) :
                   m \in {RegexMatchAt(s, j)}}) :
         j \in {FirstMatch(s, i)}})

\* JSON.stringify(obj, null, 2), indented by two spaces
StringifyIndent == 2

\* prettyPrintJSON(obj)
prettyPrintJSON(obj) ==
  The({ReplaceAll(s, 1) : s \in {Stringify(obj, StringifyIndent, 0)}})

(***************************************************************************)
(* Property access on arbitrary values (non-strict script code).           *)
(***************************************************************************)
\* Reading or writing a property of null or undefined throws a TypeError
Nullish(v) == TypeOf(v) \in {"undefined", "null"}

\* v[k] = x for a v that is not nullish: a write to a primitive is ignored
SetProp(v, k, x) == IF IsObject(v) THEN Put(v, k, x) ELSE v

\* arr[idx], idx counted from 0; also "ab"[idx]
Index(v, idx) ==
  CASE TypeOf(v) = "array" -> IF idx < Len(v[2]) THEN v[2][idx + 1] ELSE Undefined
    [] TypeOf(v) = "string" -> IF idx < Len(v[2]) THEN Str(CharAt(v[2], idx + 1)) ELSE Undefined
    [] OTHER -> Undefined

\* arr[idx] = x on an array: a write past the end leaves holes
ArrSet(a, idx, x) ==
  Arr([i \in 1..(IF idx + 1 > Len(a[2]) THEN idx + 1 ELSE Len(a[2])) |->
         IF i = idx + 1 THEN x
         ELSE IF i <= Len(a[2]) THEN a[2][i] ELSE Undefined])

\* Object.keys(v).length for a v that is not nullish
KeyCount(v) ==
  CASE TypeOf(v) \in {"object", "array", "string"} -> Len(v[2])
    [] OTHER -> 0

IsDigit(c) == c \in {"0", "1", "2", "3", "4", "5", "6", "7", "8", "9"}

\* Whether a number input shows the value v rather than staying empty:
\* the value sanitization of <input type=number> empties any text that
\* is not a number
ShowsAsNumber(v) ==
  \/ TypeOf(v) = "number"
  \/ /\ TypeOf(v) = "string"
     /\ LET t == IF Len(v[2]) > 0 /\ CharAt(v[2], 1) = "-"
                 THEN SubSeq(v[2], 2, Len(v[2])) ELSE v[2]
        IN Len(t) > 0 /\ \A i \in 1..Len(t) : IsDigit(CharAt(t, i))

LowerChar(c) ==
  CASE c = "A" -> "a" [] c = "B" -> "b" [] c = "C" -> "c" [] c = "D" -> "d"
    [] c = "E" -> "e" [] c = "F" -> "f" [] c = "G" -> "g" [] c = "H" -> "h"
    [] c = "I" -> "i" [] c = "J" -> "j" [] c = "K" -> "k" [] c = "L" -> "l"
    [] c = "M" -> "m" [] c = "N" -> "n" [] c = "O" -> "o" [] c = "P" -> "p"
    [] c = "Q" -> "q" [] c = "R" -> "r" [] c = "S" -> "s" [] c = "T" -> "t"
    [] c = "U" -> "u" [] c = "V" -> "v" [] c = "W" -> "w" [] c = "X" -> "x"
    [] c = "Y" -> "y" [] c = "Z" -> "z" [] OTHER -> c

RECURSIVE ToLowerCase(_)
ToLowerCase(s) ==
  IF Len(s) = 0 THEN s ELSE LowerChar(CharAt(s, 1)) \o ToLowerCase(SubSeq(s, 2, Len(s)))

\* String.prototype.includes
Includes(s, t) ==
  \E i \in 1..(Len(s) - Len(t) + 1) : SubSeq(s, i, i + Len(t) - 1) = t

\* matchesSearch(key, desc, searchTerm); an absent label or help is ""
matchesSearch(key, desc, searchTerm) ==
  IF searchTerm = "" THEN TRUE
  ELSE IF desc.type = "section" THEN FALSE
  ELSE LET term == ToLowerCase(searchTerm)
       IN \/ Includes(ToLowerCase(key), term)
          \/ desc.label # "" /\ Includes(ToLowerCase(desc.label), term)
          \/ desc.help # "" /\ Includes(ToLowerCase(desc.help), term)

(***************************************************************************)
(* sessionStorage.  An entry is absent, a text JSON.parse rejects, or the  *)
(* text JSON.stringify wrote, held as the value it parses to.              *)
(***************************************************************************)
Absent == <<"absent">>
Garbage == <<"text">>
Json(v) == <<"json", v>>

\* The entry that setItem(key, JSON.stringify(v)) leaves
EntryFor(v) == IF v = Undefined THEN Garbage ELSE Json(JSONValue(v))

\* JSON.stringify(value) !== JSON.stringify(other) of updateModifiedStatus
IsModified(value, other) ==
  IF value = Undefined \/ other = Undefined THEN value # other
  ELSE Stringify(value, 0, 0) # Stringify(other, 0, 0)

(***************************************************************************)
(* State.                                                                  *)
(***************************************************************************)
VARIABLES
  config,             \* the schema: [pageName, variables]
  variables,          \* the value of the global `variables`
  defaults,           \* the value of the global `defaults`
  aliased,            \* keys k for which variables[k] and defaults[k] are one array object
  storageUser,        \* sessionStorage entry STORAGE_KEY_USER
  storageDefaults,    \* sessionStorage entry STORAGE_KEY_DEFAULTS
  jsonPreview,        \* jsonPreview.value
  status,             \* status.textContent
  controls,           \* the rendered controls, by key
  currentSearchTerm,  \* currentSearchTerm
  pc,                 \* where init() is: "config", "example", "done", "failed"
  pending,            \* example fetches started by a click and not yet settled
  threw,              \* whether the last handler ended by an uncaught exception
  storageMode,        \* "ok", "full" (every write throws) or "denied" (every access throws)
  serverConfig,       \* the document CONFIG_URL serves
  serverExample,      \* the document EXAMPLE_URL serves
  startUser,          \* the STORAGE_KEY_USER entry when the page started
  startDefaults,      \* the STORAGE_KEY_DEFAULTS entry when the page started
  exampleFetches,     \* number of fetches of EXAMPLE_URL started so far
  initClean,          \* while init() runs: no click and no edit so far
  fnSource,           \* argument of the function under test
  fnResult            \* its result

vars ==
  <<config, variables, defaults, aliased, storageUser, storageDefaults, jsonPreview,
    status, controls, currentSearchTerm, pc, pending, threw, storageMode, serverConfig,
    serverExample, startUser, startDefaults, exampleFetches, initClean,
    fnSource, fnResult>>

\* The part of the state that the handlers read and write, as one record
Cur ==
  [config |-> config, variables |-> variables, defaults |-> defaults,
   aliased |-> aliased, storageUser |-> storageUser,
   storageDefaults |-> storageDefaults, jsonPreview |-> jsonPreview,
   status |-> status, controls |-> controls,
   currentSearchTerm |-> currentSearchTerm, threw |-> FALSE]

Commit(m) ==
  /\ config' = m.config
  /\ variables' = m.variables
  /\ defaults' = m.defaults
  /\ aliased' = m.aliased
  /\ storageUser' = m.storageUser
  /\ storageDefaults' = m.storageDefaults
  /\ jsonPreview' = m.jsonPreview
  /\ status' = m.status
  /\ controls' = m.controls
  /\ currentSearchTerm' = m.currentSearchTerm
  /\ threw' = m.threw

\* A throw: the rest of the handler does not run
Throw(m) == [m EXCEPT !.threw = TRUE]

(***************************************************************************)
(* Storage access.  An access can throw (quota, privacy mode): the ok       *)
(* argument says whether it succeeds.  The condition of the tab's storage  *)
(* is storageMode and lasts for the life of the page.                      *)
(***************************************************************************)
\* saveUserState()
saveUserState(m, ok) ==
  IF ok THEN [m EXCEPT !.storageUser = EntryFor(m.variables)] ELSE m

\* loadUserState(): null when the read throws, the entry is absent or
\* empty, or the text does not parse
loadUserState(entry, ok) ==
  IF ok /\ entry[1] = "json" THEN entry[2] ELSE Null

\* saveDefaultsToStorage()
saveDefaultsToStorage(m, ok) ==
  IF ok THEN [m EXCEPT !.storageDefaults = EntryFor(m.defaults)] ELSE m

\* updatePreview() without its call of saveUserState
updatePreviewOnly(m, ok) ==
  [m EXCEPT !.jsonPreview = prettyPrintJSON(m.variables)]

\* updatePreview()
updatePreview(m, ok) ==
  The({saveUserState(m1, ok) :
         m1 \in {[m EXCEPT !.jsonPreview = prettyPrintJSON(m.variables)]}})

\* updateModifiedStatus(key, value, rowEl) for the row of a rendered control
updateModifiedStatus(m, key, value) ==
  IF Nullish(m.defaults) THEN Throw(m)
  ELSE IF key \in DOMAIN m.controls
       THEN [m EXCEPT !.controls[key].modified = IsModified(value, Get(m.defaults, key))]
       ELSE m

(***************************************************************************)
(* Rendering.  A rendered control is [kind, count, disabled, blank,        *)
(* modified]: blank is the set of its number fields whose text is empty    *)
(* (index 0 for a single field), modified is the mark on its row.  The     *)
(* handlers of a control close over its key and descriptor; controls       *)
(* exist only for the schema that loadConfig installed, so the descriptor  *)
(* is read from config.                                                    *)
(***************************************************************************)
NoControls == [k \in {} |-> 0]

ControlKind(desc) ==
  IF desc.type = "boolean" THEN "checkbox"
  ELSE IF desc.type = "choice"
       THEN (IF Len(getChoices(desc)) = 0 THEN "choiceText" ELSE "select")
  ELSE IF desc.type = "number" /\ desc.input = "slider" THEN "slider"
  ELSE IF desc.type = "number_array" THEN "array"
  ELSE IF desc.type = "number" THEN "number"
  ELSE "text"

\* const count = desc.count || (Array.isArray(value) ? value.length : 2)
ControlCount(desc, value) ==
  IF Truthy(desc.count) THEN desc.count[2]
  ELSE IF IsArray(value) THEN Len(value[2]) ELSE 2

\* The number fields of a new control that start empty
InitialBlank(desc, value) ==
  LET kind == ControlKind(desc)
  IN IF kind = "number"
     THEN (IF IsArray(value) \/ IsObject(value) \/ ~ShowsAsNumber(value) THEN {0} ELSE {})
     ELSE IF kind = "array"
          THEN {i \in 0..(ControlCount(desc, value) - 1) :
                  /\ IsArray(value)
                  /\ Index(value, i) # Undefined
                  /\ ~ShowsAsNumber(Index(value, i))}
     ELSE {}

\* select.value after `select.value = initial`: the empty string when no
\* option has that value
SelectValue(choices, initial) ==
  IF \E i \in 1..Len(choices) : choices[i] = initial THEN initial ELSE ""

\* The `initial` of makeControl's select branch
InitialOption(value, desc, choices) ==
  IF value # Undefined /\ value # Null /\ JSString(value) # ""
  THEN JSString(value)
  ELSE IF desc.default # Undefined THEN JSString(desc.default) ELSE choices[1]

\* select.value after the select branch has set it
SelectedOption(value, desc) ==
  The({The({SelectValue(choices, initial) :
              initial \in {InitialOption(value, desc, choices)}}) :
         choices \in {getChoices(desc)}})

\* makeControl(key, value, desc) and the appendChild of its row
makeControl(m, key, value, desc) ==
  The({IF Nullish(m1.defaults) THEN Throw(m1)
       ELSE [m1 EXCEPT !.controls =
               [k \in DOMAIN m1.controls \cup {key} |->
                  IF k = key
                  THEN [kind |-> ControlKind(desc),
                        count |-> IF ControlKind(desc) = "array"
                                  THEN ControlCount(desc, value) ELSE 0,
                        disabled |-> desc.readonly,
                        blank |-> InitialBlank(desc, value),
                        modified |-> IsModified(value, Get(m1.defaults, key))]
                  ELSE m1.controls[k]]] :
         m1 \in {IF ControlKind(desc) = "select"
                 THEN [m EXCEPT !.variables = SetProp(@, key, Str(SelectedOption(value, desc))),
                                !.aliased = @ \ {key}]
                 ELSE m}})

\* The body of the forEach of renderControlsForVariables for the i-th
\* schema key k with descriptor desc (vars[k] || {}), then the keys after it
RECURSIVE RenderFrom(_, _)
RenderKey(m, i, k, desc) ==
  IF desc.type = "section" THEN RenderFrom(m, i + 1)
  ELSE IF ~matchesSearch(k, desc, m.currentSearchTerm) THEN RenderFrom(m, i + 1)
  ELSE IF Nullish(m.variables) THEN Throw(m)
  ELSE The({RenderFrom(m1, i + 1) :
              m1 \in {makeControl(m, k, val, desc) :
                        val \in {IF Get(m.variables, k) # Undefined
                                 THEN Get(m.variables, k) ELSE defaultFor(desc)}}})

\* The forEach of renderControlsForVariables from the i-th schema key on
RenderFrom(m, i) ==
  IF m.threw \/ i > Len(m.config.variables) THEN m
  ELSE The({RenderKey(m, i, k, desc) :
              k \in {m.config.variables[i][1]},
              desc \in {IF m.config.variables[i][2].isNull
                        THEN Desc0 ELSE m.config.variables[i][2]}})

\* renderControlsForVariables()
renderControlsForVariables(m) ==
  IF m.threw THEN m
  ELSE The({RenderFrom(m0, 1) : m0 \in {[m EXCEPT !.controls = NoControls]}})

(***************************************************************************)
(* loadConfig.  A fetched schema document is the sequence of its top-level *)
(* members <<key, member>>; a member is a string, a descriptor or a map    *)
(* of descriptors.  A page name that is absent is "".                      *)
(***************************************************************************)
Failed == <<"failed">>

MStr(t) == [kind |-> "string", str |-> t, desc |-> Desc0, map |-> <<>>]
MDesc(d) == [kind |-> "desc", str |-> "", desc |-> d, map |-> <<>>]
MMap(vs) == [kind |-> "map", str |-> "", desc |-> Desc0, map |-> vs]

HasMember(raw, k) == \E i \in 1..Len(raw) : raw[i][1] = k
Member(raw, k) == raw[CHOOSE i \in 1..Len(raw) : raw[i][1] = k][2]
MemberTruthy(mem) == mem.kind # "string" \/ mem.str # ""

\* The descriptor that reading fields of a member used as a descriptor
\* amounts to: a string has none of the fields, an empty string is falsy
AsDesc(mem) ==
  IF mem.kind = "desc" THEN mem.desc
  ELSE IF MemberTruthy(mem) THEN Desc0 ELSE NullDesc

\* The own fields of a descriptor read as a map of variables: every field
\* value is then a "descriptor" without fields
FieldsAsVars(d) ==
  LET prim(v) == IF Truthy(v) THEN Desc0 ELSE NullDesc
  IN (IF d.type # "" THEN << <<"type", Desc0>> >> ELSE <<>>)
     \o (IF d.default # Undefined THEN << <<"default", prim(d.default)>> >> ELSE <<>>)
     \o (IF d.count # Undefined THEN << <<"count", prim(d.count)>> >> ELSE <<>>)
     \o (IF d.readonly THEN << <<"readonly", Desc0>> >> ELSE <<>>)
     \o (IF d.input # "" THEN << <<"input", Desc0>> >> ELSE <<>>)
     \o (IF d.choices # Undefined THEN << <<"choices", Desc0>> >> ELSE <<>>)
     \o [i \in 1..Len(d.numbered) |->
           <<"choice_" \o NumStr(d.numbered[i][1]), prim(d.numbered[i][2])>>]
     \o (IF d.label # "" THEN << <<"label", Desc0>> >> ELSE <<>>)
     \o (IF d.help # "" THEN << <<"help", Desc0>> >> ELSE <<>>)

\* raw.variables read as the map of variables of config
AsVariables(mem) ==
  IF mem.kind = "map" THEN mem.map
  ELSE IF mem.kind = "desc" THEN FieldsAsVars(mem.desc)
  ELSE [i \in 1..Len(mem.str) |-> <<NatStr(i - 1), Desc0>>]

\* loadConfig() once the fetch has settled with `fetched`
loadConfig(m, fetched) ==
  IF fetched = Failed
  THEN [m EXCEPT !.config = [pageName |-> m.config.pageName, variables |-> <<>>]]
  ELSE LET raw == fetched[2]
           rawPageName ==
             IF HasMember(raw, "pageName") /\ Member(raw, "pageName").kind = "string"
             THEN Member(raw, "pageName").str ELSE ""
       IN IF HasMember(raw, "variables") /\ MemberTruthy(Member(raw, "variables"))
          THEN [m EXCEPT !.config = [pageName |-> rawPageName,
                                     variables |-> AsVariables(Member(raw, "variables"))]]
          ELSE LET rest == SelectSeq(raw, LAMBDA p : p[1] # "pageName")
               IN [m EXCEPT !.config =
                     [pageName |-> IF rawPageName # "" THEN rawPageName
                                   ELSE m.config.pageName,
                      variables |-> [i \in 1..Len(rest) |->
                                       <<rest[i][1], AsDesc(rest[i][2])>>]]]

(***************************************************************************)
(* Load example, reset and init.                                           *)
(***************************************************************************)
\* The keys whose value buildSanitizedFromSource copies from source by
\* reference and that hold an array: two results share these arrays
SharedArrays(cfg, source) ==
  {k \in NonSectionKeys(cfg) :
     Truthy(source) /\ HasOwn(source, k) /\ IsArray(Get(source, k))}

\* loadExampleAndApply() once its fetch has settled with `fetched`;
\* dOk, uOk: whether the two storage writes succeed
loadExampleAndApply(m, fetched, dOk, uOk) ==
  The({[m4 EXCEPT !.status = IF fetched = Failed THEN "Example loaded."
                            ELSE "Example loaded (sanitized to configured keys)."] :
         m4 \in {renderControlsForVariables(m3) :
         m3 \in {updatePreview(m2, uOk) :
         m2 \in {saveDefaultsToStorage(m1, dOk) :
         m1 \in {[m EXCEPT !.variables = buildSanitizedFromSource(m.config, src),
                           !.defaults = buildSanitizedFromSource(m.config, src),
                           !.aliased = SharedArrays(m.config, src)] :
         src \in {IF fetched = Failed THEN Null ELSE fetched[2]}}}}}})

\* resetToDefaults(); rOk, uOk: whether the storage read and write succeed
resetToDefaults(m, rOk, uOk) ==
  The({renderControlsForVariables(m2) :
         m2 \in {updatePreview(m1, uOk) :
         m1 \in {IF Truthy(saved)
                 THEN [m EXCEPT !.variables = structuredClone(saved),
                                !.status = "Restored last used state (from this tab).",
                                !.aliased = {}]
                 ELSE [m EXCEPT !.variables = structuredClone(m.defaults),
                                !.status = "Reset to defaults.",
                                !.aliased = {}] :
         saved \in {loadUserState(m.storageUser, rOk)}}}})

\* cleanSectionKeys(obj) of init
cleanSectionKeys(cfg, obj) ==
  IF ~Truthy(obj) THEN obj
  ELSE IF IsObject(obj)
       THEN Obj(SelectSeq(obj[2], LAMBDA p :
                  ~(p[1] \in ConfigKeys(cfg) /\ IsSection(DescOf(cfg, p[1])))))
  ELSE obj

\* StoredDefaults with the fault of lacking JSON.parse: `if(d) defaults = d`
StoredDefaultsUnparsed(m, ok) ==
  IF ok /\ m.storageDefaults # Absent
  THEN Str(IF m.storageDefaults[1] = "json" THEN Stringify(m.storageDefaults[2], 0, 0)
           ELSE "{oops")
  ELSE m.defaults

\* The defaults init takes from storage: `if(d) defaults = JSON.parse(d)`
\* inside try/catch
StoredDefaults(m, ok) ==
  IF ok /\ m.storageDefaults[1] = "json" THEN m.storageDefaults[2] ELSE m.defaults

\* The else branch of init's test of Object.keys(defaults).length, to the
\* end of init()
initRestores(m, uOk) ==
  The({IF m2.threw THEN [m |-> m2, pc |-> "failed"]
       ELSE [m |-> [m2 EXCEPT !.status = "Ready."], pc |-> "done"] :
         m2 \in {renderControlsForVariables(m1) : m1 \in {updatePreview(m, uOk)}}})

\* init() with the fault of leaving out the sanitization of the restored
\* state (line 582)
initWithSavedRaw(m, saved, dOk, uOk) ==
  The({IF Nullish(m1.defaults) THEN [m |-> Throw(m1), pc |-> "failed"]
       ELSE IF KeyCount(m1.defaults) = 0 THEN [m |-> m1, pc |-> "example"]
       ELSE initRestores(m1, uOk) :
         m1 \in {[m EXCEPT !.defaults = StoredDefaults(m, dOk),
                           !.variables = structuredClone(saved),
                           !.aliased = {}]}})

\* init() from `if(saved)` with a truthy saved, up to its next await or its
\* end
initWithSaved(m, saved, dOk, uOk) ==
  The({IF Nullish(m1.defaults) THEN [m |-> Throw(m1), pc |-> "failed"]
       ELSE IF KeyCount(m1.defaults) = 0 THEN [m |-> m1, pc |-> "example"]
       ELSE initRestores(m1, uOk) :
         m1 \in {[m EXCEPT !.defaults = StoredDefaults(m, dOk),
                           !.variables =
                             buildSanitizedFromSource(m.config, structuredClone(saved)),
                           !.aliased = {}]}})

\* init() from the settling of the schema fetch up to its next await or
\* its end: [m, pc].  rOk, dOk: whether the two storage reads succeed;
\* uOk: whether the storage write succeeds
initAfterConfig(m, fetched, rOk, dOk, uOk) ==
  The({The({IF Truthy(saved) THEN initWithSaved(m0, saved, dOk, uOk)
            ELSE [m |-> m0, pc |-> "example"] :
              saved \in {cleanSectionKeys(m0.config,
                                          loadUserState(m0.storageUser, rOk))}}) :
         m0 \in {loadConfig(m, fetched)}})

\* init() from the settling of its example fetch to its end
initAfterExample(m, fetched, dOk, uOk) ==
  The({[m1 EXCEPT !.status = "Ready."] :
         m1 \in {loadExampleAndApply(m, fetched, dOk, uOk)}})

(***************************************************************************)
(* The handlers of the rendered controls.                                  *)
(***************************************************************************)
\* variables[key] = x
Assign(m, key, x) ==
  IF m.threw THEN m
  ELSE IF Nullish(m.variables) THEN Throw(m)
  ELSE [m EXCEPT !.variables = SetProp(@, key, x), !.aliased = @ \ {key}]

\* variables[key][idx] = x; a shared array changes in defaults as well
AssignElement(m, key, idx, x) ==
  IF m.threw THEN m
  ELSE IF Nullish(m.variables) \/ Nullish(Get(m.variables, key)) THEN Throw(m)
  ELSE IF ~IsArray(Get(m.variables, key)) THEN m
  ELSE The({[m EXCEPT !.variables = SetProp(@, key, a),
                       !.defaults = IF key \in m.aliased THEN SetProp(@, key, a) ELSE @] :
              a \in {ArrSet(Get(m.variables, key), idx, x)}})

\* updatePreview(); updateModifiedStatus(key, variables[key], row)
AfterEdit(m, key, uOk) ==
  IF m.threw THEN m
  ELSE The({updateModifiedStatus(m1, key, Get(m1.variables, key)) :
              m1 \in {updatePreview(m, uOk)}})

\* The text of a number field
SetBlank(m, key, idx, isBlank) ==
  IF m.threw THEN m
  ELSE [m EXCEPT !.controls[key].blank = IF isBlank THEN @ \cup {idx} ELSE @ \ {idx}]

\* Number(text) for the text of a number field
ParseNumber(text) == CHOOSE n \in -99..99 : NumStr(n) = text

\* variables[key] = x; updatePreview(); updateModifiedStatus(...)
AssignThenUpdate(m, key, x, uOk) ==
  The({AfterEdit(m1, key, uOk) : m1 \in {Assign(m, key, x)}})

\* A number field takes text that parses: variables[key] = Number(text);
\* updatePreview(); updateModifiedStatus(...)
NumberTyped(m, key, text, uOk) ==
  The({AssignThenUpdate(m0, key, Num(ParseNumber(text)), uOk) :
         m0 \in {SetBlank(m, key, 0, FALSE)}})

\* checkbox 'change'
checkboxChange(m, key, checked, uOk) == AssignThenUpdate(m, key, Bool(checked), uOk)

\* 'input' of the text field shown for a choice without choices
fallbackInput(m, key, text, uOk) == AssignThenUpdate(m, key, Str(text), uOk)

\* select 'change'
selectChange(m, key, option, uOk) == AssignThenUpdate(m, key, Str(option), uOk)

\* slider: 'input' of the range
rangeInput(m, key, n, uOk) ==
  The({AssignThenUpdate(m0, key, Num(n), uOk) : m0 \in {SetBlank(m, key, 0, FALSE)}})

\* sliderNumberInput with the fault of lacking the test of line 219:
\* Number('') is 0
sliderNumberInputCoercing(m, key, text, uOk) ==
  IF text = ""
  THEN The({AssignThenUpdate(m0, key, Num(0), uOk) : m0 \in {SetBlank(m, key, 0, TRUE)}})
  ELSE NumberTyped(m, key, text, uOk)

\* slider: 'input' of the number box
sliderNumberInput(m, key, text, uOk) ==
  IF text = "" THEN SetBlank(m, key, 0, TRUE)
  ELSE NumberTyped(m, key, text, uOk)

\* 'blur' of a single number field (slider number box, plain number input)
numberBlur(m, key, uOk) ==
  IF 0 \notin m.controls[key].blank THEN m
  ELSE The({The({AfterEdit(m2, key, uOk) :
                   m2 \in {SetBlank(m1, key, 0, ~ShowsAsNumber(resetVal)) :
                             m1 \in {Assign(m, key, resetVal)}}}) :
              resetVal \in {defaultFor(DescOf(m.config, key))}})

\* EnsureArray with the fault of lacking the test: the array is replaced by
\* a zero-filled one at every edit
EnsureArrayAlways(m, key) ==
  IF Nullish(m.variables) THEN Throw(m)
  ELSE Assign(m, key, Arr([i \in 1..m.controls[key].count |-> Num(0)]))

\* number_array: `if(!Array.isArray(variables[key])) variables[key] =
\* new Array(count).fill(0)`
EnsureArray(m, key) ==
  IF Nullish(m.variables) THEN Throw(m)
  ELSE IF ~IsArray(Get(m.variables, key))
       THEN Assign(m, key, Arr([i \in 1..m.controls[key].count |-> Num(0)]))
  ELSE m

\* number_array: 'input' of element idx
elementInput(m, key, idx, text, uOk) ==
  IF text = "" THEN SetBlank(m, key, idx, TRUE)
  ELSE The({AfterEdit(m2, key, uOk) :
              m2 \in {AssignElement(m1, key, idx, Num(ParseNumber(text))) :
                        m1 \in {EnsureArray(m0, key) :
                                  m0 \in {SetBlank(m, key, idx, FALSE)}}}})

\* number_array: 'blur' of element idx, the default array not being nullish
ElementReset(m, key, idx, resetVal, uOk) ==
  The({AfterEdit(m2, key, uOk) :
         m2 \in {SetBlank(m1, key, idx, ~ShowsAsNumber(resetVal)) :
                   m1 \in {AssignElement(m, key, idx, resetVal)}}})

\* number_array: 'blur' of element idx
elementBlur(m, key, idx, uOk) ==
  IF idx \notin m.controls[key].blank THEN m
  ELSE The({IF Nullish(defArr) THEN Throw(m)
            ELSE The({ElementReset(m, key, idx, resetVal, uOk) :
                        resetVal \in {Index(defArr, idx)}}) :
              defArr \in {defaultFor(DescOf(m.config, key))}})

\* 'input' of a plain text or number field
plainInput(m, key, text, uOk) ==
  IF m.controls[key].kind = "number"
  THEN IF text = "" THEN SetBlank(m, key, 0, TRUE)
       ELSE NumberTyped(m, key, text, uOk)
  ELSE AssignThenUpdate(m, key, Str(text), uOk)

(***************************************************************************)
(* The environment: schema documents, example documents, what the tab's    *)
(* storage holds when the page starts, and what the user types.            *)
(***************************************************************************)
DNumber == [Desc0 EXCEPT !.type = "number"]
DReadonly == [Desc0 EXCEPT !.type = "number", !.readonly = TRUE, !.default = Num(3)]
DSlider == [Desc0 EXCEPT !.type = "number", !.input = "slider", !.default = Num(5)]
DSection == [Desc0 EXCEPT !.type = "section", !.label = "Group"]
DBoolean == [Desc0 EXCEPT !.type = "boolean"]
DString == [Desc0 EXCEPT !.type = "string", !.help = "Shown name"]
DArray == [Desc0 EXCEPT !.type = "number_array", !.count = Num(2)]
DArrayAuto == [Desc0 EXCEPT !.type = "number_array", !.default = Arr(<<Num(5)>>)]
DChoice ==
  [Desc0 EXCEPT !.type = "choice", !.choices = Arr(<<Num(1), Num(2)>>), !.default = Num(1)]
DChoiceNumbered ==
  [Desc0 EXCEPT !.type = "choice", !.numbered = << <<2, Str("B")>>, <<1, Str("A")>> >>]
DChoiceFree == [Desc0 EXCEPT !.type = "choice"]

Wrapped(name, vs) == << <<"pageName", MStr(name)>>, <<"variables", MMap(vs)>> >>

SchemaDocs ==
  { Wrapped("Editor", << <<"c", DChoice>>, <<"x", DReadonly>> >>),
    Wrapped("Editor", << <<"a", DArray>> >>),
    Wrapped("", << <<"b", DBoolean>>, <<"s", DString>> >>),
    Wrapped("Editor", << <<"x", DSlider>> >>),
    Wrapped("Editor", << <<"c", DChoiceNumbered>>, <<"x", NullDesc>> >>),
    Wrapped("Editor", << <<"c", DChoiceFree>> >>),
    Wrapped("Editor", << <<"a", DArrayAuto>> >>),
    << <<"x", MDesc(DNumber)>>, <<"pageName", MStr("Legacy")>>, <<"g", MDesc(DSection)>> >> }

\* Documents: the example file, and user states and defaults persisted
\* earlier in the tab, possibly under another schema
DocFull ==
  Obj(<< <<"x", Num(9)>>, <<"g", Num(42)>>, <<"old", Num(1)>>, <<"c", Num(2)>>,
         <<"a", Arr(<<Num(3)>>)>>, <<"b", Bool(TRUE)>>, <<"s", Str("hi")>> >>)
DocOdd ==
  Obj(<< <<"a", Num(8)>>, <<"x", Null>>, <<"c", Str("B")>>, <<"g", Str("sec")>>,
         <<"old", Num(1)>> >>)
DocEmpty == Obj(<<>>)

ExampleDocs == {DocFull}
StartUserEntries == {Absent, Garbage, Json(DocOdd)}
StartDefaultsEntries == {Absent, Json(DocEmpty), Json(DocFull)}

\* Arguments of buildSanitizedFromSource under test
DocStale == Obj(<< <<"g", Num(42)>>, <<"old", Num(1)>>, <<"b", Bool(FALSE)>> >>)
SourceDocs ==
  {Null, DocFull, DocOdd, DocEmpty, DocStale, Num(5), Str("ab"), Arr(<<Num(1)>>)}

EditNumbers == {7}
EditTexts == {"B"}
SearchTerms == {"", "x"}

\* Bound on the example fetches that clicks have started and that have
\* not settled
MaxPending == 1

\* The initial config.pageName, in ASCII
DefaultPageName == "Deesse UI - Editor"

(***************************************************************************)
(* The page: Init is the state when the script has run to its end, the     *)
(* listeners are registered and init() awaits the schema fetch.            *)
(***************************************************************************)
Init ==
  /\ config = [pageName |-> DefaultPageName, variables |-> <<>>]
  /\ variables = Obj(<<>>)
  /\ defaults = Obj(<<>>)
  /\ aliased = {}
  /\ storageMode \in {"ok", "full", "denied"}
  /\ storageUser \in IF storageMode = "denied" THEN {Absent} ELSE StartUserEntries
  /\ storageDefaults \in IF storageMode = "denied" THEN {Absent} ELSE StartDefaultsEntries
  /\ jsonPreview = ""
  /\ status = ""
  /\ controls = NoControls
  /\ currentSearchTerm = ""
  /\ pc = "config"
  /\ pending = 0
  /\ threw = FALSE
  /\ serverConfig \in SchemaDocs
  /\ serverExample \in ExampleDocs
  /\ startUser = storageUser
  /\ startDefaults = storageDefaults
  /\ exampleFetches = 0
  /\ initClean = TRUE
  /\ fnSource = Null
  /\ fnResult = Null

Env == <<serverConfig, serverExample, startUser, startDefaults, storageMode>>

ReadOk == storageMode # "denied"
WriteOk == storageMode = "ok"
Fn == <<fnSource, fnResult>>

InInit == pc \in {"config", "example"}

\* A click or an edit while init() is suspended
UserActs == initClean' = (initClean /\ ~InInit)

Fetched(doc) == {Failed, <<"ok", doc>>}

\* The schema fetch of init() settles and init() runs on
InitConfigSettles ==
  /\ pc = "config"
  /\ \E fetched \in Fetched(serverConfig) :
       \E r \in {initAfterConfig(Cur, fetched, ReadOk, ReadOk, WriteOk)} :
          /\ Commit(r.m)
          /\ pc' = r.pc
          /\ exampleFetches' = IF r.pc = "example" THEN exampleFetches + 1 ELSE exampleFetches
          /\ initClean' = (initClean \/ r.pc \in {"done", "failed"})
  /\ UNCHANGED <<pending, Env, Fn>>

\* The example fetch of init() settles and init() runs to its end
InitExampleSettles ==
  /\ pc = "example"
  /\ \E fetched \in Fetched(serverExample) :
       /\ \E m \in {initAfterExample(Cur, fetched, WriteOk, WriteOk)} : Commit(m)
  /\ pc' = "done"
  /\ initClean' = TRUE
  /\ UNCHANGED <<pending, exampleFetches, Env, Fn>>

\* A click on loadExampleBtn: loadExampleAndApply() starts its fetch
ClickLoadExample ==
  /\ pending < MaxPending
  /\ pending' = pending + 1
  /\ Commit(Cur)
  /\ UserActs
  /\ UNCHANGED <<pc, exampleFetches, Env, Fn>>

\* The fetch of a clicked loadExampleAndApply() settles
ExampleSettles ==
  /\ pending > 0
  /\ pending' = pending - 1
  /\ \E fetched \in Fetched(serverExample) :
       /\ \E m \in {loadExampleAndApply(Cur, fetched, WriteOk, WriteOk)} : Commit(m)
  /\ UNCHANGED <<pc, exampleFetches, initClean, Env, Fn>>

\* A click on resetBtn
Reset ==
  /\ \E m \in {resetToDefaults(Cur, ReadOk, WriteOk)} : Commit(m)
  /\ UserActs
  /\ UNCHANGED <<pc, pending, exampleFetches, Env, Fn>>

\* 'input' of searchInput
Search ==
  /\ \E term \in SearchTerms :
       /\ term # currentSearchTerm
       /\ \E m \in {renderControlsForVariables([Cur EXCEPT !.currentSearchTerm = term])} : Commit(m)
  /\ UserActs
  /\ UNCHANGED <<pc, pending, exampleFetches, Env, Fn>>

\* The rendered controls of a kind that accept input
Enabled(kinds) ==
  {k \in DOMAIN controls : controls[k].kind \in kinds /\ ~controls[k].disabled}

EditFrame ==
  /\ UserActs
  /\ UNCHANGED <<pc, pending, exampleFetches, Env, Fn>>

CheckboxChange ==
  /\ \E key \in Enabled({"checkbox"}), checked \in BOOLEAN :
       /\ \E m \in {checkboxChange(Cur, key, checked, WriteOk)} : Commit(m)
  /\ EditFrame

FallbackInput ==
  /\ \E key \in Enabled({"choiceText"}), text \in EditTexts \cup {""} :
       /\ \E m \in {fallbackInput(Cur, key, text, WriteOk)} : Commit(m)
  /\ EditFrame

SelectChange ==
  /\ \E key \in Enabled({"select"}) :
       \E i \in 1..Len(getChoices(DescOf(config, key))) :
         /\ \E m \in {selectChange(Cur, key, getChoices(DescOf(config, key))[i], WriteOk)} : Commit(m)
  /\ EditFrame

RangeInput ==
  /\ \E key \in Enabled({"slider"}), n \in EditNumbers :
       /\ \E m \in {rangeInput(Cur, key, n, WriteOk)} : Commit(m)
  /\ EditFrame

NumberTexts == {NumStr(n) : n \in EditNumbers} \cup {""}

SliderNumberInput ==
  /\ \E key \in Enabled({"slider"}), text \in NumberTexts :
       /\ \E m \in {sliderNumberInput(Cur, key, text, WriteOk)} : Commit(m)
  /\ EditFrame

NumberBlur ==
  /\ \E key \in Enabled({"slider", "number"}) :
       /\ \E m \in {numberBlur(Cur, key, WriteOk)} : Commit(m)
  /\ EditFrame

ElementInput ==
  /\ \E key \in Enabled({"array"}), text \in NumberTexts :
       \E idx \in 0..(controls[key].count - 1) :
         /\ \E m \in {elementInput(Cur, key, idx, text, WriteOk)} : Commit(m)
  /\ EditFrame

ElementBlur ==
  /\ \E key \in Enabled({"array"}) :
       \E idx \in 0..(controls[key].count - 1) :
         /\ \E m \in {elementBlur(Cur, key, idx, WriteOk)} : Commit(m)
  /\ EditFrame

PlainInput ==
  /\ \E key \in Enabled({"number", "text"}) :
       \E text \in IF controls[key].kind = "number" THEN NumberTexts ELSE EditTexts \cup {""} :
         /\ \E m \in {plainInput(Cur, key, text, WriteOk)} : Commit(m)
  /\ EditFrame

Next ==
  \/ InitConfigSettles
  \/ InitExampleSettles
  \/ ClickLoadExample
  \/ ExampleSettles
  \/ Reset
  \/ Search
  \/ CheckboxChange
  \/ FallbackInput
  \/ SelectChange
  \/ RangeInput
  \/ SliderNumberInput
  \/ NumberBlur
  \/ ElementInput
  \/ ElementBlur
  \/ PlainInput

Spec == Init /\ [][Next]_vars

(***************************************************************************)
(* buildSanitizedFromSource on its own: the schema is what loadConfig      *)
(* leaves for a schema document (or for a failed fetch), the argument is   *)
(* any source document; the function is applied to the argument and then   *)
(* to its own result.                                                      *)
(***************************************************************************)
NotCalled == [out |-> Undefined, again |-> Undefined]

InitSanitize ==
  /\ variables = Obj(<<>>)
  /\ defaults = Obj(<<>>)
  /\ aliased = {}
  /\ storageMode = "ok"
  /\ storageUser = Absent
  /\ storageDefaults = Absent
  /\ jsonPreview = ""
  /\ status = ""
  /\ controls = NoControls
  /\ currentSearchTerm = ""
  /\ pc = "done"
  /\ pending = 0
  /\ threw = FALSE
  /\ serverConfig \in SchemaDocs
  /\ serverExample \in ExampleDocs
  /\ startUser = Absent
  /\ startDefaults = Absent
  /\ exampleFetches = 0
  /\ initClean = TRUE
  /\ config \in {loadConfig([config |-> [pageName |-> DefaultPageName, variables |-> <<>>]],
                             fetched).config : fetched \in Fetched(serverConfig)}
  /\ fnSource \in SourceDocs
  /\ fnResult = NotCalled

\* out = buildSanitizedFromSource(source)
Sanitize ==
  /\ fnResult.out = Undefined
  /\ fnResult' = [fnResult EXCEPT !.out = buildSanitizedFromSource(config, fnSource)]
  /\ UNCHANGED <<config, variables, defaults, aliased, storageUser, storageDefaults,
                 jsonPreview, status, controls, currentSearchTerm, pc, pending, threw,
                 exampleFetches, initClean, Env, fnSource>>

\* again = buildSanitizedFromSource(out)
SanitizeAgain ==
  /\ fnResult.out # Undefined
  /\ fnResult.again = Undefined
  /\ fnResult' = [fnResult EXCEPT !.again = buildSanitizedFromSource(config, fnResult.out)]
  /\ UNCHANGED <<config, variables, defaults, aliased, storageUser, storageDefaults,
                 jsonPreview, status, controls, currentSearchTerm, pc, pending, threw,
                 exampleFetches, initClean, Env, fnSource>>

NextSanitize ==
  \/ Sanitize
  \/ SanitizeAgain

SpecSanitize == InitSanitize /\ [][NextSanitize]_vars

SectionKeys(cfg) == ConfigKeys(cfg) \ NonSectionKeys(cfg)

\* C1: for every schema and every source document (null included), the
\* result of buildSanitizedFromSource is an object whose keys are exactly
\* the schema keys whose descriptor is not a section, each once: no section
\* key, no key of the source that the schema lacks, no schema key missing.
C1_KeySetIsNonSectionKeys ==
  fnResult.out # Undefined =>
    /\ IsObject(fnResult.out)
    /\ OwnKeys(fnResult.out) = NonSectionKeys(config)
    /\ Len(fnResult.out[2]) = Cardinality(NonSectionKeys(config))
    /\ OwnKeys(fnResult.out) \cap SectionKeys(config) = {}
    /\ OwnKeys(fnResult.out) \cap (OwnKeys(fnSource) \ ConfigKeys(config)) = {}

\* The schema has a section key that the source owns, the source owns a
\* key outside the schema and lacks a non-section key of the schema
C1_Witness ==
  /\ fnResult.out # Undefined
  /\ SectionKeys(config) \cap OwnKeys(fnSource) # {}
  /\ OwnKeys(fnSource) \ ConfigKeys(config) # {}
  /\ NonSectionKeys(config) \ OwnKeys(fnSource) # {}

\* C3: for a source document that is not null and every non-section schema
\* key that it owns, the result holds the very value of the source, whatever
\* the type the descriptor declares.
C3_OwnedKeysCopiedVerbatim ==
  (fnResult.out # Undefined /\ ~Nullish(fnSource)) =>
    \A k \in NonSectionKeys(config) \cap OwnKeys(fnSource) :
      Get(fnResult.out, k) = Get(fnSource, k)

\* The source owns a schema key with a value that is not of the declared
\* type: a number for a number_array, null for a number
C3_Witness ==
  /\ fnResult.out # Undefined
  /\ \E k \in NonSectionKeys(config) \cap OwnKeys(fnSource) :
       /\ ~DescOf(config, k).isNull
       /\ \/ DescOf(config, k).type = "number_array" /\ TypeOf(Get(fnSource, k)) = "number"
          \/ DescOf(config, k).type = "number" /\ Get(fnSource, k) = Null
       /\ Get(fnResult.out, k) = Get(fnSource, k)

\* C4: for the null source every non-section key holds defaultFor of its
\* descriptor, and so does every non-section key that a source other than
\* null does not own.
C4_UnownedKeysGetDefault ==
  fnResult.out # Undefined =>
    \A k \in NonSectionKeys(config) :
      (fnSource = Null \/ ~HasOwn(fnSource, k)) =>
        Get(fnResult.out, k) = defaultFor(DescOf(config, k))

\* A source that is an object lacks a key whose descriptor has a default
\* that is not null
C4_Witness ==
  /\ fnResult.out # Undefined
  /\ IsObject(fnSource)
  /\ \E k \in NonSectionKeys(config) \ OwnKeys(fnSource) :
       /\ defaultFor(DescOf(config, k)) # Null
       /\ Get(fnResult.out, k) = defaultFor(DescOf(config, k))

\* C5: buildSanitizedFromSource applied to its own result returns a value
\* deep-equal to that result.
C5_Idempotent ==
  fnResult.again # Undefined => fnResult.again = fnResult.out

\* The second application has run on the result for a source that owns
\* only a part of the schema keys
C5_Witness ==
  /\ fnResult.again # Undefined
  /\ fnResult.again = fnResult.out
  /\ NonSectionKeys(config) \cap OwnKeys(fnSource) # {}
  /\ NonSectionKeys(config) \ OwnKeys(fnSource) # {}

(***************************************************************************)
(* The page: start-up, load example and reset.                             *)
(***************************************************************************)
\* The tab's storage held a user state when the page started
HadUserState == startUser[1] = "json"

\* The tab's storage held defaults that are not empty when the page started
HadDefaults == startDefaults[1] = "json" /\ KeyCount(startDefaults[2]) > 0

\* init() runs on from the settling of its schema fetch
InitRunsOn == pc = "config" /\ pc' # "config"

\* init() returns
InitEnds == pc # "done" /\ pc' = "done"

\* C2: in every state after init() has returned, whatever edits, blurs,
\* load-example clicks and resets came before and whether or not storage
\* accepts writes, the keys of variables are exactly the non-section keys
\* of the schema.
C2_KeySetAfterInit ==
  pc = "done" => (IsObject(variables) /\ OwnKeys(variables) = NonSectionKeys(config))

\* C6: when the page starts with a persisted user state P and persisted
\* defaults Q that are not empty, and the user does nothing while init()
\* runs, init() ends without fetching the example, with variables equal to
\* buildSanitizedFromSource of P without its section keys and with defaults
\* equal to Q.
C6_StartupWithHistory ==
  [][(InitRunsOn /\ initClean /\ HadUserState /\ HadDefaults) =>
       /\ pc' = "done"
       /\ exampleFetches' = 0
       /\ defaults' = startDefaults[2]
       /\ variables' =
            buildSanitizedFromSource(config', cleanSectionKeys(config', startUser[2]))]_vars

\* C7: when the page starts without a persisted user state, or with one
\* but with persisted defaults that are absent or empty, and the user does
\* nothing while init() runs, init() fetches the example and ends with
\* variables equal to buildSanitizedFromSource of the example or, the fetch
\* having failed, of null.
C7_StartupWithoutDefaults ==
  [][/\ (InitRunsOn /\ initClean /\ ~(HadUserState /\ HadDefaults)) =>
          (pc' = "example" /\ exampleFetches' = 1)
     /\ (pc = "example" /\ InitEnds /\ initClean) =>
          variables' \in {buildSanitizedFromSource(config, serverExample),
                          buildSanitizedFromSource(config, Null)}]_vars

\* C8: when init() returns, whatever the persisted user state held (keys
\* of an older schema, keys that are now sections, keys missing), variables
\* has no section key and no key that the schema lacks, and init() has not
\* thrown.
C8_InitDropsStaleKeys ==
  [][InitEnds =>
       /\ IsObject(variables')
       /\ OwnKeys(variables') \cap SectionKeys(config') = {}
       /\ OwnKeys(variables') \subseteq ConfigKeys(config')
       /\ ~threw']_vars

\* init() has restored a persisted user state that holds a key that is
\* now a section and a key that the schema lacks
C8_Witness ==
  /\ pc = "done"
  /\ status = "Ready."
  /\ exampleFetches = 0
  /\ HadUserState
  /\ SectionKeys(config) \cap OwnKeys(startUser[2]) # {}
  /\ OwnKeys(startUser[2]) \ ConfigKeys(config) # {}
  /\ OwnKeys(variables) = NonSectionKeys(config)

\* The fetch of a clicked loadExampleAndApply() settles
ClickedExampleSettles == pending' = pending - 1

\* C9: when the example fetch of a click succeeds with document E, the
\* handler leaves variables and defaults equal to
\* buildSanitizedFromSource(E), the persisted defaults equal to the new
\* defaults, and the preview and the persisted user state equal to the
\* serialized new state (the two storage entries when storage accepts
\* writes).
C9_LoadExampleSuccess ==
  [][(ClickedExampleSettles /\ status' = "Example loaded (sanitized to configured keys).") =>
       LET s == buildSanitizedFromSource(config, serverExample)
       IN /\ variables' = s
          /\ defaults' = s
          /\ jsonPreview' = prettyPrintJSON(s)
          /\ WriteOk => (storageDefaults' = EntryFor(s) /\ storageUser' = EntryFor(s))]_vars

\* C10: when the example fetch of a click fails, the handler does not
\* throw and leaves variables and defaults equal to
\* buildSanitizedFromSource(null), the persisted defaults equal to the new
\* defaults, and the preview and the persisted user state equal to the
\* serialized new state (the two storage entries when storage accepts
\* writes).
C10_LoadExampleFailure ==
  [][(ClickedExampleSettles /\ status' = "Example loaded.") =>
       LET s == buildSanitizedFromSource(config, Null)
       IN /\ ~threw'
          /\ variables' = s
          /\ defaults' = s
          /\ jsonPreview' = prettyPrintJSON(s)
          /\ WriteOk => (storageDefaults' = EntryFor(s) /\ storageUser' = EntryFor(s))]_vars

(***************************************************************************)
(* The page: edits, blurs and reset.                                       *)
(***************************************************************************)
\* A step of a listener other than the load-example click: an edit, a
\* blur, a search or a reset (init() and the settling of a fetch move pc or
\* pending)
UserStep == pc' = pc /\ pending' = pending

\* C11: defaults is not aliased with variables: no edit (in particular of
\* one element of a number_array whose value came from the example
\* document), no blur, no search and no reset changes defaults; defaults
\* changes only when init() or load example assigns it.
C11_DefaultsImmutable == [][UserStep => defaults' = defaults]_vars

\* The persisted user state that a reset can read, or Null
PersistedUserState == loadUserState(storageUser, ReadOk)

\* C12: a reset with a persisted user state in the tab's storage leaves
\* variables equal to that state and the status 'Restored last used state
\* (from this tab).'; a reset without one (absent, unreadable or
\* unparseable) leaves variables equal to defaults and the status 'Reset to
\* defaults.'; in both cases the preview shows the new variables and, when
\* storage accepts writes, the persisted user state holds them.
C12_Reset ==
  [][Reset =>
       /\ IF PersistedUserState # Null
          THEN /\ variables' = PersistedUserState
               /\ status' = "Restored last used state (from this tab)."
          ELSE /\ variables' = defaults
               /\ status' = "Reset to defaults."
       /\ jsonPreview' = prettyPrintJSON(variables')
       /\ WriteOk => storageUser' = EntryFor(variables')]_vars

\* C13: whenever init() has returned and no handler is running, the
\* preview is prettyPrintJSON(variables) and, when storage accepts writes,
\* the persisted user state is the serialized variables: every writer of
\* variables, control rendering included, is followed in its handler by
\* updatePreview().
C13_PreviewInSync ==
  pc = "done" =>
    /\ jsonPreview = prettyPrintJSON(variables)
    /\ WriteOk => storageUser = EntryFor(variables)

\* C14: whenever init() has returned and no handler is running, the row of
\* every rendered variable k is marked modified if and only if
\* JSON.stringify(variables[k]) differs from JSON.stringify(defaults[k]).
C14_ModifiedMark ==
  pc = "done" =>
    \A k \in DOMAIN controls :
      controls[k].modified = IsModified(Get(variables, k), Get(defaults, k))

(***************************************************************************)
(* The number fields on their own: the page as init() leaves it when the   *)
(* tab's storage is empty and the example document is any of FieldDocs     *)
(* (values of a type other than the descriptor declares included), and     *)
(* then the listeners of the number fields.                                *)
(***************************************************************************)
\* Example documents whose values for the number and number_array keys
\* are arrays, null, numbers, strings and booleans
FieldDocs ==
  { DocFull, DocOdd,
    Obj(<< <<"a", Null>>, <<"x", Str("7")>> >>),
    Obj(<< <<"a", Str("ab")>>, <<"x", Bool(TRUE)>> >>),
    Obj(<< <<"a", Bool(TRUE)>>, <<"x", Str("")>> >>),
    Obj(<< <<"a", Arr(<<Num(1), Null, Num(3)>>)>> >>) }

\* The globals when the script has run to its end, storage being empty
FreshPage ==
  [config |-> [pageName |-> DefaultPageName, variables |-> <<>>],
   variables |-> Obj(<<>>), defaults |-> Obj(<<>>), aliased |-> {},
   storageUser |-> Absent, storageDefaults |-> Absent, jsonPreview |-> "",
   status |-> "", controls |-> NoControls, currentSearchTerm |-> "", threw |-> FALSE]

\* init() run to its end on an empty storage, both fetches succeeding
LoadedPage(schemaDoc, exampleDoc, rOk, wOk) ==
  The({initAfterExample(r.m, <<"ok", exampleDoc>>, wOk, wOk) :
         r \in {initAfterConfig(FreshPage, <<"ok", schemaDoc>>, rOk, rOk, wOk)}})

InitFields ==
  /\ storageMode \in {"ok", "full", "denied"}
  /\ serverConfig \in SchemaDocs
  /\ serverExample \in FieldDocs
  /\ \E m \in {LoadedPage(serverConfig, serverExample, ReadOk, WriteOk)} :
       /\ config = m.config
       /\ variables = m.variables
       /\ defaults = m.defaults
       /\ aliased = m.aliased
       /\ storageUser = m.storageUser
       /\ storageDefaults = m.storageDefaults
       /\ jsonPreview = m.jsonPreview
       /\ status = m.status
       /\ controls = m.controls
       /\ currentSearchTerm = m.currentSearchTerm
       /\ threw = m.threw
  /\ pc = "done"
  /\ pending = 0
  /\ startUser = Absent
  /\ startDefaults = Absent
  /\ exampleFetches = 1
  /\ initClean = TRUE
  /\ fnSource = Null
  /\ fnResult = Null

NextFields ==
  \/ RangeInput
  \/ SliderNumberInput
  \/ NumberBlur
  \/ ElementInput
  \/ ElementBlur
  \/ PlainInput

SpecFields == InitFields /\ [][NextFields]_vars

\* A step of the 'input' or the 'blur' listener of an element of a
\* number_array control
ElementStep == ElementInput \/ ElementBlur

\* C15: no 'input' and no 'blur' of an element of a number_array control
\* throws, whatever variables[k] holds (an array, null, a number, a string,
\* a boolean); an 'input' of a number, when variables[k] is not an array,
\* leaves variables[k] a zero-filled array of the length of the control
\* with the number at the edited index.
C15_ElementEditsNeverThrow ==
  [][ElementStep =>
       /\ ~threw'
       /\ \A k \in Enabled({"array"}) :
            (~IsArray(Get(variables, k)) /\ Get(variables', k) # Get(variables, k)) =>
              \E idx \in 0..(controls[k].count - 1), n \in EditNumbers :
                Get(variables', k) =
                  ArrSet(Arr([i \in 1..controls[k].count |-> Num(0)]), idx, Num(n))]_vars

\* The text of a number field becomes empty in an 'input' event: the
\* field joins the empty fields of its control
BlankTyped ==
  \E k \in DOMAIN controls \cap DOMAIN controls' :
    /\ controls'[k].blank # controls[k].blank
    /\ controls[k].blank \subseteq controls'[k].blank

\* C16: when the text of a number field (plain number, number box of a
\* slider, element of a number_array) becomes empty in an 'input' event,
\* variables, the preview and the persisted user state stay as they are.
C16_BlankNotCoerced ==
  [][BlankTyped =>
       /\ variables' = variables
       /\ jsonPreview' = jsonPreview
       /\ storageUser' = storageUser]_vars

\* A number field is empty while its variable, or its element of the
\* variable, still holds a number other than 0
C16_Witness ==
  \E k \in DOMAIN controls :
    /\ controls[k].kind \in {"number", "slider", "array"}
    /\ \E i \in controls[k].blank :
         LET shown == IF controls[k].kind = "array"
                      THEN Index(Get(variables, k), i) ELSE Get(variables, k)
         IN TypeOf(shown) = "number" /\ shown # Num(0)
    /\ jsonPreview = prettyPrintJSON(variables)

\* The preview and the persisted user state show variables after the step
Refreshed ==
  /\ jsonPreview' = prettyPrintJSON(variables')
  /\ WriteOk => storageUser' = EntryFor(variables')

\* C17: a 'blur' of a number field whose text is empty leaves variables[k]
\* equal to defaultFor of the descriptor of k (for the element idx of a
\* number_array: leaves variables[k][idx] equal to element idx of that
\* default, a number) and refreshes the preview and the persisted user
\* state; a 'blur' of a field that is not empty changes nothing.
C17_BlurSnapsToDefault ==
  [][/\ NumberBlur =>
          \E k \in Enabled({"slider", "number"}) :
            IF 0 \in controls[k].blank
            THEN /\ ~threw'
                 /\ variables' = SetProp(variables, k, defaultFor(DescOf(config, k)))
                 /\ Refreshed
            ELSE UNCHANGED <<variables, jsonPreview, storageUser, controls>>
     /\ ElementBlur =>
          \E k \in Enabled({"array"}) :
            \E idx \in 0..(controls[k].count - 1) :
              IF idx \in controls[k].blank
              THEN /\ ~threw'
                   /\ Index(Get(variables', k), idx) = Index(defaultFor(DescOf(config, k)), idx)
                   /\ TypeOf(Index(Get(variables', k), idx)) = "number"
                   /\ Refreshed
              ELSE UNCHANGED <<variables, jsonPreview, storageUser, controls>>]_vars

(***************************************************************************)
(* JSON.parse, for the texts that a reader of the preview or of the        *)
(* downloaded file parses: objects, arrays, strings without escapes,       *)
(* integers, true, false and null, separated by white space.  A parse      *)
(* result is [ok, val, next]: the value and the position after it.         *)
(***************************************************************************)
SyntaxError == <<"SyntaxError">>
NoParse == [ok |-> FALSE, val |-> SyntaxError, next |-> 0]
Parsed(v, n) == [ok |-> TRUE, val |-> v, next |-> n]

\* The position of the first character at or after i that is not white space
SkipSpace(s, i) == i + SpaceRun(s, i)

\* Length of the longest run of digits of s that starts at position i
RECURSIVE DigitRun(_, _)
DigitRun(s, i) ==
  IF i <= Len(s) /\ IsDigit(CharAt(s, i)) THEN 1 + DigitRun(s, i + 1) ELSE 0

\* A string literal at position i (which holds the opening quote)
ParseStringAt(s, i) ==
  The({IF j = 0 THEN NoParse ELSE Parsed(Str(SubSeq(s, i + 1, j - 1)), j + 1) :
         j \in {NextChar(s, i + 1, "\"")}})

\* A number literal at position i
ParseNumberAt(s, i) ==
  The({The({IF n = 0 THEN NoParse
            ELSE Parsed(Num(ParseNumber(SubSeq(s, i, from + n - 1))), from + n) :
              n \in {DigitRun(s, from)}}) :
         from \in {IF CharAt(s, i) = "-" THEN i + 1 ELSE i}})

\* The literal `word` at position i
ParseWordAt(s, i, word, v) ==
  IF SubSeq(s, i, i + Len(word) - 1) = word THEN Parsed(v, i + Len(word)) ELSE NoParse

RECURSIVE ParseValueAt(_, _)
RECURSIVE ParseElements(_, _, _)
RECURSIVE ParseMembers(_, _, _)

\* The elements of an array from position i on, acc being those before
ParseElements(s, i, acc) ==
  The({IF ~r.ok THEN NoParse
       ELSE The({IF CharAt(s, j) = "," THEN ParseElements(s, SkipSpace(s, j + 1), Append(acc, r.val))
                 ELSE IF CharAt(s, j) = "]" THEN Parsed(Arr(Append(acc, r.val)), j + 1)
                 ELSE NoParse :
                   j \in {SkipSpace(s, r.next)}}) :
         r \in {ParseValueAt(s, i)}})

\* The members of an object from position i on, acc being the object so far
ParseMembers(s, i, acc) ==
  The({IF ~k.ok THEN NoParse
       ELSE The({The({IF ~r.ok THEN NoParse
                      ELSE The({IF CharAt(s, j) = ","
                                THEN ParseMembers(s, SkipSpace(s, j + 1), Put(acc, k.val[2], r.val))
                                ELSE IF CharAt(s, j) = "}"
                                     THEN Parsed(Put(acc, k.val[2], r.val), j + 1)
                                ELSE NoParse :
                                  j \in {SkipSpace(s, r.next)}}) :
                        r \in {IF CharAt(s, c) = ":"
                               THEN ParseValueAt(s, SkipSpace(s, c + 1)) ELSE NoParse}}) :
                   c \in {SkipSpace(s, k.next)}}) :
         k \in {IF CharAt(s, i) = "\"" THEN ParseStringAt(s, i) ELSE NoParse}})

\* The value at position i
ParseValueAt(s, i) ==
  The({IF c = "{"
       THEN (IF CharAt(s, SkipSpace(s, i + 1)) = "}"
             THEN Parsed(Obj(<<>>), SkipSpace(s, i + 1) + 1)
             ELSE ParseMembers(s, SkipSpace(s, i + 1), Obj(<<>>)))
       ELSE IF c = "["
            THEN (IF CharAt(s, SkipSpace(s, i + 1)) = "]"
                  THEN Parsed(Arr(<<>>), SkipSpace(s, i + 1) + 1)
                  ELSE ParseElements(s, SkipSpace(s, i + 1), <<>>))
       ELSE IF c = "\"" THEN ParseStringAt(s, i)
       ELSE IF c = "t" THEN ParseWordAt(s, i, "true", Bool(TRUE))
       ELSE IF c = "f" THEN ParseWordAt(s, i, "false", Bool(FALSE))
       ELSE IF c = "n" THEN ParseWordAt(s, i, "null", Null)
       ELSE ParseNumberAt(s, i) :
         c \in {CharAt(s, i)}})

\* JSON.parse(text): the value, or SyntaxError when it throws
JSONParse(text) ==
  The({IF r.ok /\ SkipSpace(text, r.next) = Len(text) + 1 THEN r.val ELSE SyntaxError :
         r \in {ParseValueAt(text, SkipSpace(text, 1))}})

(***************************************************************************)
(* prettyPrintJSON as src/assets/app.js has it: the replacement callback   *)
(* pads the collapsed body with a space on either side.                    *)
(***************************************************************************)
CollapseInnerAsset(inner) ==
  The({"[" \o (IF oneLine = "" THEN "" ELSE " " \o oneLine \o " ") \o "]" :
         oneLine \in {Trim(spaced) :
                        spaced \in {SpaceCommas(joined, 1) :
                                      joined \in {JoinLines(inner, 1)}}}})

RECURSIVE ReplaceAllAsset(_, _)
ReplaceAllAsset(s, i) ==
  The({IF j = 0 THEN SubSeq(s, i, Len(s))
       ELSE The({SubSeq(s, i, j - 1) \o CollapseInnerAsset(SubSeq(s, m.from, m.to))
                 \o ReplaceAllAsset(s, m.end + 1) :
                   m \in {RegexMatchAt(s, j)}}) :
         j \in {FirstMatch(s, i)}})

prettyPrintJSONAsset(obj) ==
  The({ReplaceAllAsset(s, 1) : s \in {Stringify(obj, StringifyIndent, 0)}})

(***************************************************************************)
(* The display text on its own: the argument is any state of two keys      *)
(* whose values are booleans, numbers, strings or arrays of those; it is   *)
(* formatted by either copy of prettyPrintJSON and the text is parsed.     *)
(***************************************************************************)
PrettyValues ==
  { Bool(TRUE), Num(-5), Str("a,b"), Str("x]"),
    Arr(<<>>), Arr(<<Num(0), Num(1), Num(-5)>>),
    Arr(<<Str("a,b")>>), Arr(<<Str("a, b"), Str("c")>>),
    Arr(<<Str("[x]")>>), Arr(<<Bool(FALSE), Str("hi there")>>) }

PrettyDocs == {Obj(<< <<"a", v1>>, <<"b", v2>> >>) : v1, v2 \in PrettyValues}

NotShown == [text |-> Undefined, parsed |-> Undefined, asset |-> Undefined]

InitPretty ==
  /\ variables = Obj(<<>>)
  /\ defaults = Obj(<<>>)
  /\ aliased = {}
  /\ storageMode = "ok"
  /\ storageUser = Absent
  /\ storageDefaults = Absent
  /\ jsonPreview = ""
  /\ status = ""
  /\ controls = NoControls
  /\ currentSearchTerm = ""
  /\ pc = "done"
  /\ pending = 0
  /\ threw = FALSE
  /\ serverConfig = DocEmpty
  /\ serverExample = DocEmpty
  /\ startUser = Absent
  /\ startDefaults = Absent
  /\ exampleFetches = 0
  /\ initClean = TRUE
  /\ config = [pageName |-> DefaultPageName, variables |-> <<>>]
  /\ fnSource \in PrettyDocs
  /\ fnResult = NotShown

\* text = prettyPrintJSON(state)
ToDisplayText ==
  /\ fnResult.text = Undefined
  /\ fnResult' = [fnResult EXCEPT !.text = Str(prettyPrintJSON(fnSource))]
  /\ UNCHANGED <<config, variables, defaults, aliased, storageUser, storageDefaults,
                 jsonPreview, status, controls, currentSearchTerm, pc, pending, threw,
                 exampleFetches, initClean, Env, fnSource>>

\* parsed = JSON.parse(text)
ParseDisplayText ==
  /\ fnResult.text # Undefined
  /\ fnResult.parsed = Undefined
  /\ fnResult' = [fnResult EXCEPT !.parsed = JSONParse(fnResult.text[2])]
  /\ UNCHANGED <<config, variables, defaults, aliased, storageUser, storageDefaults,
                 jsonPreview, status, controls, currentSearchTerm, pc, pending, threw,
                 exampleFetches, initClean, Env, fnSource>>

\* asset = prettyPrintJSON(state), by the copy of src/assets/app.js
AssetDisplayText ==
  /\ fnResult.asset = Undefined
  /\ fnResult' = [fnResult EXCEPT !.asset = Str(prettyPrintJSONAsset(fnSource))]
  /\ UNCHANGED <<config, variables, defaults, aliased, storageUser, storageDefaults,
                 jsonPreview, status, controls, currentSearchTerm, pc, pending, threw,
                 exampleFetches, initClean, Env, fnSource>>

NextPretty ==
  \/ ToDisplayText
  \/ ParseDisplayText
  \/ AssetDisplayText

SpecPretty == InitPretty /\ [][NextPretty]_vars

\* C18: once the display text of a state has been parsed as JSON, the
\* parsed value is deep-equal to the state, whatever booleans, numbers,
\* strings and arrays of those (strings with commas, spaces or brackets
\* included) the state holds.
C18_RoundTrip ==
  fnResult.parsed # Undefined => fnResult.parsed = fnSource

\* C19: the display text of a state is its 2-space-indented JSON in key
\* order, in which every array of primitives stands on one line as
\* [v1, v2, v3] (one space after each comma, none inside the brackets, the
\* empty array as []) and every other line is as JSON.stringify writes it;
\* this holds for the text of either copy of prettyPrintJSON.
C19_DisplayFormat ==
  LET OneLine(v) ==
        IF IsArray(v)
        THEN "[" \o JoinWith([i \in 1..Len(v[2]) |-> Stringify(v[2][i], 0, 0)], ", ") \o "]"
        ELSE Stringify(v, 0, 0)
      DisplayText(state) ==
        "{\n"
        \o JoinWith([i \in 1..Len(state[2]) |->
                       Spaces(StringifyIndent) \o "\"" \o state[2][i][1] \o "\": "
                       \o OneLine(state[2][i][2])],
                    ",\n")
        \o "\n}"
  IN /\ fnResult.text # Undefined => fnResult.text[2] = DisplayText(fnSource)
     /\ fnResult.asset # Undefined => fnResult.asset[2] = DisplayText(fnSource)

(***************************************************************************)
(* defaultFor on its own: the schema holds one descriptor "a" of any type  *)
(* tag, with or without a literal default; defaultFor is called, the       *)
(* caller writes into the array it got, and defaultFor is called again.    *)
(* own records whether the value returned is an object of its own or the   *)
(* object desc.default itself, in which case the caller's write is a write *)
(* into the descriptor.                                                    *)
(***************************************************************************)
\* defaultFor(desc) without the structuredClone of line 66: a default that
\* is an array is handed out as it is
defaultForShared(desc) ==
  [val |-> defaultFor(desc), own |-> desc.isNull \/ ~IsArray(desc.default)]

\* defaultFor(desc) as an object: line 66 returns a structured clone and the
\* other lines return new values, so the result is never desc.default itself
defaultForObject(desc) == [val |-> defaultFor(desc), own |-> TRUE]

DefaultTypes == {"boolean", "number", "number_array", "string", "choice", "color", ""}
LiteralDefaults ==
  { Undefined, Null, Bool(TRUE), Num(7), Str("x"), Arr(<<>>), Arr(<<Num(5)>>),
    Arr(<<Num(1), Num(2), Num(3)>>) }
DefaultCounts == {Undefined, Num(0), Num(1), Num(3)}
DefaultChoices == {Undefined, Arr(<<>>), Arr(<<Str("A"), Str("B")>>), Arr(<<Num(4)>>)}
NumberedChoices ==
  { << <<2, Str("B")>>, <<1, Num(4)>> >>,
    << <<10, Str("J")>>, <<2, Str("B")>>, <<1, Num(4)>> >>,
    << <<2, Str("B")>>, <<10, Str("J")>>, <<1, Num(4)>> >>,
    << <<1, Num(4)>>, <<2, Str("B")>>, <<10, Str("J")>> >>,
    << <<10, Null>> >> }
DefaultDescs ==
  {[Desc0 EXCEPT !.type = t, !.default = d, !.count = c, !.choices = ch] :
     t \in DefaultTypes, d \in LiteralDefaults, c \in DefaultCounts, ch \in DefaultChoices}
  \cup {NullDesc}
  \cup {[Desc0 EXCEPT !.type = "choice", !.choices = ch, !.numbered = nb] :
          ch \in DefaultChoices \cup {Str("XY")}, nb \in NumberedChoices}

NotAsked ==
  [out |-> Undefined, own |-> TRUE, mutated |-> FALSE, again |-> Undefined,
   choices |-> Undefined]

InitDefault ==
  /\ variables = Obj(<<>>)
  /\ defaults = Obj(<<>>)
  /\ aliased = {}
  /\ storageMode = "ok"
  /\ storageUser = Absent
  /\ storageDefaults = Absent
  /\ jsonPreview = ""
  /\ status = ""
  /\ controls = NoControls
  /\ currentSearchTerm = ""
  /\ pc = "done"
  /\ pending = 0
  /\ threw = FALSE
  /\ serverConfig = DocEmpty
  /\ serverExample = DocEmpty
  /\ startUser = Absent
  /\ startDefaults = Absent
  /\ exampleFetches = 0
  /\ initClean = TRUE
  /\ fnSource \in DefaultDescs
  /\ config = [pageName |-> DefaultPageName, variables |-> << <<"a", fnSource>> >>]
  /\ fnResult = NotAsked

\* out = defaultFor(config.variables.a)
AskDefault ==
  /\ fnResult.out = Undefined
  /\ \E r \in {defaultForObject(DescOf(config, "a"))} :
       fnResult' = [fnResult EXCEPT !.out = r.val, !.own = r.own]
  /\ UNCHANGED <<config, variables, defaults, aliased, storageUser, storageDefaults,
                 jsonPreview, status, controls, currentSearchTerm, pc, pending, threw,
                 exampleFetches, initClean, Env, fnSource>>

\* out[idx] = x, on the array that defaultFor returned
WriteReturned ==
  /\ IsArray(fnResult.out)
  /\ ~fnResult.mutated
  /\ fnResult.again = Undefined
  /\ \E idx \in 0..Len(fnResult.out[2]), x \in {Num(9), Str("w")} :
       \E arr \in {ArrSet(fnResult.out, idx, x)} :
         /\ fnResult' = [fnResult EXCEPT !.out = arr, !.mutated = TRUE]
         /\ config' = IF fnResult.own THEN config
                      ELSE [config EXCEPT !.variables[1][2].default = arr]
  /\ UNCHANGED <<variables, defaults, aliased, storageUser, storageDefaults,
                 jsonPreview, status, controls, currentSearchTerm, pc, pending, threw,
                 exampleFetches, initClean, Env, fnSource>>

\* again = defaultFor(config.variables.a)
AskDefaultAgain ==
  /\ fnResult.out # Undefined
  /\ fnResult.again = Undefined
  /\ fnResult' = [fnResult EXCEPT !.again = defaultForObject(DescOf(config, "a")).val]
  /\ UNCHANGED <<config, variables, defaults, aliased, storageUser, storageDefaults,
                 jsonPreview, status, controls, currentSearchTerm, pc, pending, threw,
                 exampleFetches, initClean, Env, fnSource>>

\* choices = getChoices(config.variables.a)
ResolveChoices ==
  /\ fnResult.choices = Undefined
  /\ \E cs \in {getChoices(DescOf(config, "a"))} :
       fnResult' = [fnResult EXCEPT !.choices = Arr([i \in 1..Len(cs) |-> Str(cs[i])])]
  /\ UNCHANGED <<config, variables, defaults, aliased, storageUser, storageDefaults,
                 jsonPreview, status, controls, currentSearchTerm, pc, pending, threw,
                 exampleFetches, initClean, Env, fnSource>>

NextDefault ==
  \/ AskDefault
  \/ WriteReturned
  \/ AskDefaultAgain
  \/ ResolveChoices

SpecDefault == InitDefault /\ [][NextDefault]_vars

\* C20: for a descriptor that defines a default, whatever its type tag,
\* defaultFor returns a value deep-equal to the default; the value is not
\* the descriptor's own object, so after the caller has written into a
\* returned array the descriptor is as it was and a later call returns the
\* default again.
C20_LiteralDefaultWins ==
  fnSource.default # Undefined =>
    /\ (fnResult.out # Undefined /\ ~fnResult.mutated) => fnResult.out = fnSource.default
    /\ fnResult.out # Undefined => fnResult.own
    /\ DescOf(config, "a") = fnSource
    /\ fnResult.again # Undefined => fnResult.again = fnSource.default

\* A descriptor tagged boolean whose default is an array: the array was
\* returned, written into, and the default was asked for again
C20_Witness ==
  /\ fnSource.type = "boolean"
  /\ fnSource.default = Arr(<<Num(1), Num(2), Num(3)>>)
  /\ fnResult.mutated
  /\ fnResult.out # fnSource.default
  /\ fnResult.again = fnSource.default

\* C21: for a descriptor without a literal default, defaultFor returns
\* false for boolean, 0 for number, '' for string, for number_array as many
\* zeros as count says (2 when the descriptor has no count), for choice the
\* first of getChoices or '' when there is none, and null for any other or
\* missing type and for a missing descriptor.
C21_TypeDefaults ==
  (fnSource.default = Undefined /\ fnResult.out # Undefined /\ ~fnResult.mutated) =>
    fnResult.out =
      IF fnSource.isNull THEN Null
      ELSE CASE fnSource.type = "boolean" -> Bool(FALSE)
             [] fnSource.type = "number" -> Num(0)
             [] fnSource.type = "string" -> Str("")
             [] fnSource.type = "number_array" ->
                  Arr([i \in 1..(IF fnSource.count = Undefined THEN 2 ELSE fnSource.count[2])
                         |-> Num(0)])
             [] fnSource.type = "choice" ->
                  (IF Len(getChoices(fnSource)) > 0 THEN Str(getChoices(fnSource)[1])
                   ELSE Str(""))
             [] OTHER -> Null

\* C22: when the descriptor's choices is an array, getChoices returns its
\* entries as text in the given order, whatever choice_<N> keys there are;
\* otherwise it returns the text of the values of the choice_<N> keys in
\* ascending order of N, whatever the order of the keys; for a missing
\* descriptor, and when neither form is present, it returns no choice.
C22_ChoiceResolution ==
  fnResult.choices # Undefined =>
    LET r == fnResult.choices[2]
        nb == fnSource.numbered
    IN IF fnSource.isNull THEN r = <<>>
       ELSE IF IsArray(fnSource.choices)
            THEN r = [i \in 1..Len(fnSource.choices[2]) |->
                        Str(JSString(fnSource.choices[2][i]))]
       ELSE /\ Len(r) = Len(nb)
            /\ \E at \in [1..Len(nb) -> 1..Len(nb)] :
                 /\ \A i \in 1..Len(nb) : r[i] = Str(JSString(nb[at[i]][2]))
                 /\ \A i, j \in 1..Len(nb) : i < j => nb[at[i]][1] < nb[at[j]][1]

\* Keys choice_10, choice_2, choice_1 beside a choices field that is not
\* an array: the choices are those of the keys, 1 before 2 before 10
C22_Witness ==
  /\ fnSource.choices = Str("XY")
  /\ fnSource.numbered = << <<10, Str("J")>>, <<2, Str("B")>>, <<1, Num(4)>> >>
  /\ fnResult.choices = Arr(<<Str("4"), Str("B"), Str("J")>>)

(***************************************************************************)
(* init() on its own: the schema document, the example document, the       *)
(* outcome of either fetch, the condition of the storage and the two       *)
(* persisted entries are any of the combinations below; no listener runs.  *)
(* An entry may be there while the storage refuses to be read.             *)
(***************************************************************************)
StartupUserEntries == StartUserEntries \cup {Json(Null), Json(Num(5)), Json(DocFull)}
StartupDefaultsEntries ==
  StartDefaultsEntries \cup {Garbage, Json(Null), Json(Num(5)), Json(Str("ab")), Json(DocOdd)}

\* Schema documents of the legacy shape, a flat map of variables
LegacyDocs ==
  { << <<"variables", MDesc(DNumber)>>, <<"s", MDesc(DString)>> >>,
    << <<"b", MDesc(DBoolean)>>, <<"pageName", MStr("Old")>>, <<"a", MDesc(DArray)>> >>,
    << <<"s", MDesc(DString)>>, <<"x", MDesc(DSlider)>> >> }

InitStartup ==
  /\ config = [pageName |-> DefaultPageName, variables |-> <<>>]
  /\ variables = Obj(<<>>)
  /\ defaults = Obj(<<>>)
  /\ aliased = {}
  /\ storageMode \in {"ok", "full", "denied"}
  /\ storageUser \in StartupUserEntries
  /\ storageDefaults \in StartupDefaultsEntries
  /\ jsonPreview = ""
  /\ status = ""
  /\ controls = NoControls
  /\ currentSearchTerm = ""
  /\ pc = "config"
  /\ pending = 0
  /\ threw = FALSE
  /\ serverConfig \in SchemaDocs \cup LegacyDocs
  /\ serverExample \in {DocFull, DocOdd}
  /\ startUser = storageUser
  /\ startDefaults = storageDefaults
  /\ exampleFetches = 0
  /\ initClean = TRUE
  /\ fnSource \in {[config |-> f1, example |-> f2] :
                     f1 \in Fetched(serverConfig), f2 \in Fetched(serverExample)}
  /\ fnResult = Null

\* The schema fetch of init() settles as fnSource.config says
StartupConfigSettles ==
  /\ pc = "config"
  /\ \E r \in {initAfterConfig(Cur, fnSource.config, ReadOk, ReadOk, WriteOk)} :
       /\ Commit(r.m)
       /\ pc' = r.pc
       /\ exampleFetches' = IF r.pc = "example" THEN exampleFetches + 1 ELSE exampleFetches
  /\ UNCHANGED <<pending, initClean, Env, Fn>>

\* The example fetch of init() settles as fnSource.example says
StartupExampleSettles ==
  /\ pc = "example"
  /\ \E m \in {initAfterExample(Cur, fnSource.example, WriteOk, WriteOk)} : Commit(m)
  /\ pc' = "done"
  /\ UNCHANGED <<pending, exampleFetches, initClean, Env, Fn>>

NextStartup ==
  \/ StartupConfigSettles
  \/ StartupExampleSettles

SpecStartup == InitStartup /\ [][NextStartup]_vars

\* C23: whatever the outcomes of the two fetches, the condition of the
\* storage and the persisted entries (absent, not JSON, or JSON of any
\* shape), no exception escapes init(), and when init() has ended variables
\* and defaults are both objects that map keys to values.
C23_InitNeverFails ==
  /\ pc # "failed"
  /\ ~threw
  /\ pc = "done" => IsObject(variables) /\ IsObject(defaults)

\* C24: with the schema, the fetch outcomes and the other entry fixed,
\* init() with a persisted user state that is not JSON ends with the
\* variables and defaults it ends with when there is no persisted user
\* state, and likewise for a persisted defaults entry that is not JSON.
C24_MalformedIsAbsent ==
  LET Started(userEntry, defaultsEntry) ==
        [FreshPage EXCEPT !.storageUser = userEntry, !.storageDefaults = defaultsEntry]
      Ended(userEntry, defaultsEntry) ==
        The({IF r.pc = "example"
             THEN initAfterExample(r.m, fnSource.example, WriteOk, WriteOk)
             ELSE r.m :
               r \in {initAfterConfig(Started(userEntry, defaultsEntry), fnSource.config,
                                      ReadOk, ReadOk, WriteOk)}})
      SameEnd(m) == variables = m.variables /\ defaults = m.defaults /\ threw = m.threw
  IN pc \in {"done", "failed"} =>
       /\ startUser = Garbage => SameEnd(Ended(Absent, startDefaults))
       /\ startDefaults = Garbage => SameEnd(Ended(startUser, Absent))

\* init() has ended after it restored a persisted user state while the
\* persisted defaults were not JSON
C24_Witness ==
  /\ pc = "done"
  /\ ReadOk
  /\ startDefaults = Garbage
  /\ startUser = Json(DocOdd)
  /\ KeyCount(variables) > 0

\* C25: while the storage rejects writes, an edit, a settled load of the
\* example or a reset ends without an exception escaping its handler, with
\* the preview showing the variables when it gave them a new value, and with
\* both stored entries as they were.
C25_PersistenceFailureNoOp ==
  [][(/\ ~WriteOk
      /\ pc' = pc
      /\ pending' <= pending
      /\ currentSearchTerm' = currentSearchTerm) =>
       /\ ~threw'
       /\ variables' # variables => jsonPreview' = prettyPrintJSON(variables')
       /\ storageUser' = storageUser
       /\ storageDefaults' = storageDefaults]_vars

\* C26: when the schema fetch fails (or its body does not parse), the
\* schema becomes one without variables that keeps the default page name,
\* and init() then ends with variables = {} and defaults = {}, whatever the
\* example document and the persisted entries.
C26_SchemaFailureDegrades ==
  fnSource.config = Failed =>
    /\ pc # "config" => config = [pageName |-> DefaultPageName, variables |-> <<>>]
    /\ pc # "failed"
    /\ pc = "done" => variables = Obj(<<>>) /\ defaults = Obj(<<>>)

\* C27: for a fetched schema document without a variables wrapper,
\* loadConfig leaves a schema whose variables are the top-level keys other
\* than pageName, each with its descriptor and in the document's order, and
\* whose page name is the document's, or the default one when it has none;
\* whatever the keys are called.
C27_LegacyNormalized ==
  LET doc == serverConfig
      legacy == ~(HasMember(doc, "variables") /\ Member(doc, "variables").kind = "map")
      rest == SelectSeq(doc, LAMBDA p : p[1] # "pageName")
  IN (legacy /\ fnSource.config # Failed /\ pc # "config") =>
       /\ config.variables = [i \in 1..Len(rest) |-> <<rest[i][1], AsDesc(rest[i][2])>>]
       /\ config.pageName = IF HasMember(doc, "pageName") THEN Member(doc, "pageName").str
                            ELSE DefaultPageName

(***************************************************************************)
(* The page once init() has ended, under schemas in which controls of      *)
(* every kind are readonly beside controls that are not: edits, blurs,     *)
(* changes of the search term, reset and download.                         *)
(***************************************************************************)
ReadonlyDocs ==
  { Wrapped("Editor", << <<"c", [DChoice EXCEPT !.readonly = TRUE]>>, <<"n", DNumber>>,
                         <<"f", DChoiceFree>> >>),
    Wrapped("Editor", << <<"b", [DBoolean EXCEPT !.readonly = TRUE]>>, <<"s", DString>>,
                         <<"c", DChoice>> >>),
    Wrapped("Editor", << <<"a", [DArray EXCEPT !.readonly = TRUE]>>, <<"x", DSlider>>,
                         <<"b", DBoolean>> >>),
    Wrapped("Editor", << <<"f", [DChoiceFree EXCEPT !.readonly = TRUE]>>,
                         <<"s", [DString EXCEPT !.readonly = TRUE]>>, <<"a", DArray>> >>),
    Wrapped("Editor", << <<"x", [DSlider EXCEPT !.readonly = TRUE]>>,
                         <<"c", [DChoiceNumbered EXCEPT !.readonly = TRUE]>> >>) }

InitLoaded ==
  /\ storageMode \in {"ok", "full", "denied"}
  /\ serverConfig \in ReadonlyDocs
  /\ serverExample \in {DocFull, DocOdd}
  /\ \E m \in {LoadedPage(serverConfig, serverExample, ReadOk, WriteOk)} :
       /\ config = m.config
       /\ variables = m.variables
       /\ defaults = m.defaults
       /\ aliased = m.aliased
       /\ storageUser = m.storageUser
       /\ storageDefaults = m.storageDefaults
       /\ jsonPreview = m.jsonPreview
       /\ status = m.status
       /\ controls = m.controls
       /\ currentSearchTerm = m.currentSearchTerm
       /\ threw = m.threw
  /\ pc = "done"
  /\ pending = 0
  /\ startUser = Absent
  /\ startDefaults = Absent
  /\ exampleFetches = 1
  /\ initClean = TRUE
  /\ fnSource = Null
  /\ fnResult = Null

\* downloadJSON() with the fault of lacking the newline of line 539
downloadJSONBare(m) == <<"file", "_global_variables.json", prettyPrintJSON(m.variables)>>

\* downloadJSON(): the file offered, <<"file", name, text>>
downloadJSON(m) ==
  <<"file", "_global_variables.json", prettyPrintJSON(m.variables) \o "\n">>

\* A click on downloadBtn
Download ==
  /\ \E m \in {Cur} : Commit(m)
  /\ fnResult' = downloadJSON(Cur)
  /\ UserActs
  /\ UNCHANGED <<pc, pending, exampleFetches, Env, fnSource>>

NextLoaded ==
  \/ Download
  \/ Reset
  \/ Search
  \/ CheckboxChange
  \/ FallbackInput
  \/ SelectChange
  \/ RangeInput
  \/ SliderNumberInput
  \/ NumberBlur
  \/ ElementInput
  \/ ElementBlur
  \/ PlainInput

SpecLoaded == InitLoaded /\ [][NextLoaded]_vars

\* C28: no edit, no blur and no rendering of the controls changes the
\* value of a variable whose descriptor is readonly; only a reset does
\* (load example and startup aside).
C28_ReadonlyNotEditable ==
  [][~Reset =>
       \A i \in 1..Len(config.variables) :
         (~config.variables[i][2].isNull /\ config.variables[i][2].readonly) =>
           Get(variables', config.variables[i][1]) = Get(variables, config.variables[i][1])]_vars

\* C29: a click on the download button offers a file named
\* _global_variables.json whose text is the display text of the variables
\* as they are at the click followed by one newline and no more (the text
\* before that newline is JSON for the variables and ends in no white
\* space); the click changes neither variables, defaults nor either stored
\* entry.
C29_DownloadContent ==
  [][fnResult' # fnResult =>
       /\ fnResult'[2] = "_global_variables.json"
       /\ fnResult'[3] = prettyPrintJSON(variables) \o "\n"
       /\ \E body \in {SubSeq(fnResult'[3], 1, Len(fnResult'[3]) - 1)} :
            /\ JSONParse(body) = JSONValue(variables)
            /\ ~IsSpace(CharAt(body, Len(body)))
       /\ UNCHANGED <<variables, defaults, storageUser, storageDefaults>>]_vars

\* A file was offered after an edit had changed the variables since init()
C29_Witness ==
  /\ fnResult # Null
  /\ variables # LoadedPage(serverConfig, serverExample, ReadOk, WriteOk).variables
  /\ fnResult[3] = prettyPrintJSON(variables) \o "\n"

\* init() on its own, each fetch that was started settling in the end
SpecStartupFair ==
  SpecStartup /\ WF_vars(StartupConfigSettles) /\ WF_vars(StartupExampleSettles)

\* C30: when every fetch that is started settles, init() comes to its end
\* with the status 'Ready.', whatever the outcomes of the fetches and the
\* contents of the storage, and it starts the example fetch at most once.
C30_InitTerminates ==
  /\ <>(pc = "done" /\ status = "Ready.")
  /\ [](exampleFetches <= 1)

C32_LoadExampleEqualsDefaults ==
  [][ExampleSettles =>
       /\ variables' = defaults'
       /\ \A k \in OwnKeys(variables') :
            ~IsModified(Get(variables', k), Get(defaults', k))]_vars

\* C33: rendering the controls reads the state and writes none of it: a
\* change of the search term, whose handler only stores the term and calls
\* renderControlsForVariables(), leaves variables, defaults and both stored
\* entries as they were, whatever the schema and the state.
C33_RenderReadOnly ==
  [][Search => UNCHANGED <<variables, defaults, storageUser, storageDefaults>>]_vars

\* C34: when init() has ended, defaults is an object whose keys are exactly
\* the schema keys whose descriptor is not a section, also when init() took
\* defaults from an entry of the tab's storage that was written under
\* another schema.
C34_DefaultsKeySet ==
  pc = "done" =>
    /\ IsObject(defaults)
    /\ OwnKeys(defaults) = NonSectionKeys(config)

\* C35: once init() has ended and while the storage can be read and
\* written, whenever no handler is running the stored defaults entry parses
\* to a value deep-equal to defaults, after any sequence of edits, blurs,
\* resets and load-example clicks.
C35_DefaultsPersisted ==
  (pc = "done" /\ storageMode = "ok") =>
    /\ storageDefaults[1] = "json"
    /\ storageDefaults[2] = defaults

\* C36: when the page starts with a persisted user state P and persisted
\* defaults that are not empty, init() ends with variables equal to
\* buildSanitizedFromSource of P without its section keys, and with a stored
\* user entry that is still P or that sanitized state, whatever clicks on
\* load example and reset happened, and whichever of their fetches settled,
\* while init() was awaiting its own fetches.
C36_StartupSurvivesClicks ==
  [][(InitEnds /\ HadUserState /\ HadDefaults) =>
       \E restored \in {buildSanitizedFromSource(config', cleanSectionKeys(config', startUser[2]))} :
          /\ variables' = restored
          /\ storageUser' \in {startUser, EntryFor(restored)}]_vars

\* C37: an 'input' or a 'blur' of an element of a number_array control that
\* changes variables[k] leaves it an array of exactly as many elements as
\* the control has fields, each of them a number, also when the value the
\* control was rendered for, or the literal default of the descriptor, is
\* shorter than that.
C37_ArrayShapeKept ==
  [][ElementStep =>
       \A k \in Enabled({"array"}) :
         Get(variables', k) # Get(variables, k) =>
           /\ IsArray(Get(variables', k))
           /\ Len(Get(variables', k)[2]) = controls[k].count
           /\ \A i \in 0..(controls[k].count - 1) :
                TypeOf(Index(Get(variables', k), i)) = "number"]_vars

\* A step of a listener of a rendered control: an edit or a blur
EditOrBlur ==
  \/ CheckboxChange
  \/ FallbackInput
  \/ SelectChange
  \/ RangeInput
  \/ SliderNumberInput
  \/ NumberBlur
  \/ ElementInput
  \/ ElementBlur
  \/ PlainInput

\* C38: an edit or a blur of the control of a key k leaves the schema and
\* the value of every other key of variables as they were; a step of an
\* element of a number_array whose value is an array already changes at
\* most one element of that array.
C38_EditIsLocal ==
  [][EditOrBlur =>
       /\ config' = config
       /\ \E k \in DOMAIN controls :
            /\ \A j \in (OwnKeys(variables) \cup OwnKeys(variables')) \ {k} :
                 /\ HasOwn(variables', j) = HasOwn(variables, j)
                 /\ Get(variables', j) = Get(variables, j)
            /\ (ElementStep /\ IsArray(Get(variables, k))) =>
                 /\ IsArray(Get(variables', k))
                 /\ \E idx \in 0..(controls[k].count - 1) :
                      \A j \in 0..(Len(Get(variables', k)[2]) - 1) :
                        j # idx => Index(Get(variables', k), j) = Index(Get(variables, k), j)]_vars

\* An element of a number_array was edited while variables holds another
\* key as well, and the array differs from the default in that element only
C38_Witness ==
  \E k \in Enabled({"array"}) :
    /\ OwnKeys(variables) \ {k} # {}
    /\ IsArray(Get(variables, k)) /\ IsArray(Get(defaults, k))
    /\ Cardinality({j \in 0..(controls[k].count - 1) :
                      Index(Get(variables, k), j) # Index(Get(defaults, k), j)}) = 1

(***************************************************************************)
(* The pack patcher on its own: the modal as resetPackModal leaves it, the *)
(* choice of a pack file and the click on uploadPackBtn.  A pack is        *)
(* <<"file", name, entries>>, the entries being <<path, text>> in the      *)
(* order of Object.keys(loadedZip.files); fnSource is selectedPackFile and *)
(* fnResult is [packStatus, disabled, download]: packStatus.textContent,   *)
(* uploadPackBtn.disabled and the file that the last step offered for      *)
(* download, or Null.  The handler is taken as one step: nothing else runs *)
(* while it awaits JSZip.                                                  *)
(***************************************************************************)
\* String.prototype.endsWith
EndsWith(s, t) == Len(s) >= Len(t) /\ SubSeq(s, Len(s) - Len(t) + 1, Len(s)) = t

\* String.prototype.startsWith
StartsWith(s, t) == Len(s) >= Len(t) /\ SubSeq(s, 1, Len(t)) = t

\* s.split(sep)[0]: the text before the first occurrence of sep, or all of s
SplitFirst(s, sep) ==
  The({IF hits = {} THEN s
       ELSE SubSeq(s, 1, (CHOOSE h \in hits : \A h2 \in hits : h <= h2) - 1) :
         hits \in {{i \in 1..(Len(s) - Len(sep) + 1) : SubSeq(s, i, i + Len(sep) - 1) = sep}}})

\* targetPath of the click handler for the paths `files`: Str(path), or Null
TargetPath(files) ==
  The({IF present # {}
       THEN Str(files[CHOOSE h \in present : \A h2 \in present : h <= h2])
       ELSE IF inUi # {}
            THEN The({Str(parent \o (IF parent # "" THEN "/" ELSE "") \o "ui/_global_variables.json") :
                        parent \in {SplitFirst(files[CHOOSE h \in inUi : \A h2 \in inUi : h <= h2], "/ui/")}})
            ELSE Null :
         present \in {{i \in DOMAIN files : EndsWith(files[i], "ui/_global_variables.json")}},
         inUi \in {{i \in DOMAIN files : Includes(files[i], "/ui/") \/ StartsWith(files[i], "ui/")}}})

\* loadedZip.file(path, text): the entry is replaced, or added at the end
ZipFile(entries, path, text) ==
  IF \E i \in DOMAIN entries : entries[i][1] = path
  THEN [i \in DOMAIN entries |-> IF entries[i][1] = path THEN <<path, text>> ELSE entries[i]]
  ELSE Append(entries, <<path, text>>)

\* The click handler of uploadPackBtn for a selected pack
uploadPack(state, pack) ==
  The({IF target = Null
       THEN [packStatus |-> "Error: Could not find ui/ directory in pack.",
             disabled |-> FALSE, download |-> Null]
       ELSE [packStatus |-> "Pack patched successfully!", disabled |-> TRUE,
             download |-> <<"file", "PatchedDéesseUI.mcpack",
                            ZipFile(pack[3], target[2], prettyPrintJSON(state) \o "\n")>>] :
         target \in {TargetPath([i \in DOMAIN pack[3] |-> pack[3][i][1]])}})

\* Paths of pack entries: with and without a ui directory, at the root and
\* below a folder, the target file present or not
PackPaths ==
  {"pack/ui/_global_variables.json", "ui/_global_variables.json", "pack/ui/a.json",
   "ui/a.json", "pack/manifest.json", "gui/_global_variables.json", "pack/ui/",
   "a/ui/b/ui/c.json"}

\* Packs of at most two entries
PackFiles ==
  {<<"file", "my.mcpack", <<>>>>}
    \cup {<<"file", "my.mcpack", << <<p, "old">> >> >> : p \in PackPaths}
    \cup UNION {{<<"file", "my.mcpack", << <<p, "old">>, <<q, "old">> >> >> :
                    q \in PackPaths \ {p}} : p \in PackPaths}

\* The variables of the page when the modal is opened
PackStates == {DocEmpty, DocFull}

InitPack ==
  /\ variables \in PackStates
  /\ defaults = Obj(<<>>)
  /\ aliased = {}
  /\ storageMode = "ok"
  /\ storageUser = Absent
  /\ storageDefaults = Absent
  /\ jsonPreview = ""
  /\ status = ""
  /\ controls = NoControls
  /\ currentSearchTerm = ""
  /\ pc = "done"
  /\ pending = 0
  /\ threw = FALSE
  /\ serverConfig = DocEmpty
  /\ serverExample = DocEmpty
  /\ config = [pageName |-> DefaultPageName, variables |-> <<>>]
  /\ startUser = Absent
  /\ startDefaults = Absent
  /\ exampleFetches = 0
  /\ initClean = TRUE
  /\ fnSource = Null
  /\ fnResult = [packStatus |-> "No file selected.", disabled |-> TRUE, download |-> Null]

\* handleFileSelect(file), from the drop zone or the file input
SelectPack ==
  /\ \E file \in PackFiles :
       /\ fnSource' = file
       /\ fnResult' = [packStatus |-> "Selected: " \o file[2], disabled |-> FALSE,
                       download |-> Null]
  /\ UNCHANGED <<config, variables, defaults, aliased, storageUser, storageDefaults,
                 jsonPreview, status, controls, currentSearchTerm, pc, pending, threw,
                 exampleFetches, initClean, Env>>

\* 'click' of uploadPackBtn
UploadPack ==
  /\ fnSource # Null
  /\ ~fnResult.disabled
  /\ fnResult' = uploadPack(variables, fnSource)
  /\ UNCHANGED <<config, variables, defaults, aliased, storageUser, storageDefaults,
                 jsonPreview, status, controls, currentSearchTerm, pc, pending, threw,
                 exampleFetches, initClean, Env, fnSource>>

NextPack ==
  \/ SelectPack
  \/ UploadPack

SpecPack == InitPack /\ [][NextPack]_vars

\* C39: a click on uploadPackBtn writes the display text of variables plus
\* one newline to the first entry of the pack whose path ends with
\* 'ui/_global_variables.json', if there is one; otherwise, if an entry lies
\* in a directory ui/ below the prefix D (D empty at the root of the pack),
\* to D followed by 'ui/_global_variables.json'; otherwise it reports 'Could
\* not find ui/ directory in pack.' and offers no pack.  No other entry and
\* not variables is changed.
C39_PackTarget ==
  [][UploadPack =>
       LET entries == fnSource[3]
           text == prettyPrintJSON(variables) \o "\n"
           present == {i \in DOMAIN entries :
                         EndsWith(entries[i][1], "ui/_global_variables.json")}
           Parents(path) == {d \in {SubSeq(path, 1, n) : n \in 0..Len(path)} :
                               /\ StartsWith(path, d \o "ui/")
                               /\ d = "" \/ EndsWith(d, "/")}
           inUi == {i \in DOMAIN entries : Parents(entries[i][1]) # {}}
           Patched(path) ==
             /\ fnResult'.download # Null
             /\ <<path, text>> \in {fnResult'.download[3][i] : i \in DOMAIN fnResult'.download[3]}
             /\ {e \in {fnResult'.download[3][i] : i \in DOMAIN fnResult'.download[3]} : e[1] # path}
                  = {e \in {entries[i] : i \in DOMAIN entries} : e[1] # path}
       IN /\ variables' = variables
          /\ IF present # {}
             THEN Patched(entries[CHOOSE h \in present : \A h2 \in present : h <= h2][1])
             ELSE IF inUi # {}
                  THEN \E first \in {CHOOSE h \in inUi : \A h2 \in inUi : h <= h2} :
                         \E d \in Parents(entries[first][1]) :
                           /\ \A d2 \in Parents(entries[first][1]) : Len(d) <= Len(d2)
                           /\ Patched(d \o "ui/_global_variables.json")
                  ELSE /\ fnResult'.packStatus = "Error: Could not find ui/ directory in pack."
                       /\ fnResult'.download = Null]_vars

====
